---- MODULE Spec2Model ----
(***************************************************************************)
(* Tractivity: the work timer (Timer) and the inactivity monitor           *)
(* (InactivityMonitor) of src/renderer/timer.ts, driven by the click       *)
(* handlers and the polling loop of src/renderer/index.ts.                 *)
(*                                                                         *)
(* Time is the value of Date.now() in milliseconds.  An evaluate() that    *)
(* reaches its await is split in two steps: the call (up to the await) and *)
(* the continuation (after the provider's result settled); any other       *)
(* handler may run in between.                                             *)
(***************************************************************************)
EXTENDS Integers, Sequences, FiniteSets, TLC

VARIABLES now, timer, monitor, pending, last, twin, stale, ran, boot,
          systemActivity, currentSettings, resumed, store

vars == <<now, timer, monitor, pending, last, twin, stale, ran, boot,
          systemActivity, currentSettings, resumed, store>>

----------------------------------------------------------------------------
(* Bounds and values *)

\* null of startTimestamp
Null == -1

\* undefined of lastSystemIdleMs / idleMillisecondsFromSystem
Undefined == -2

\* period of window.setInterval(evaluateAndRender, 250)
PollIntervalMs == 250

\* the clock is observed every second polling period
ClockStepMs == 2 * PollIntervalMs

\* number of clock steps explored
MaxTicks == 4

\* calls of one kind counted in the comparison of two monitors
MaxCalls == 2

Times == {k * ClockStepMs : k \in 0..MaxTicks}

\* timestamps one clock step around the current time
NearTimes(clock) == {clock - ClockStepMs, clock, clock + ClockStepMs} \cap Times

\* thresholdMs values handed to the constructor
Thresholds == {1000, 1500}

\* whether an idleTimeProvider was handed to the constructor
ProviderKinds == {"none", "present"}

\* what a call of idleTimeProvider() does synchronously
ProviderCalls == {"throws", "returns"}

\* what the value returned by idleTimeProvider() settles to
ProviderResults ==
    {[kind |-> "number", value |-> v] : v \in {-1, 0, 1, 2}}
        \cup {[kind |-> k, value |-> 0] : k \in {"NaN", "Infinity", "rejected"}}

\* the same, with the other values that are not a non-negative finite number
ProviderValues ==
    ProviderResults \cup {[kind |-> k, value |-> 0] : k \in {"-Infinity", "other"}}

NoResult == [kind |-> "none", value |-> 0]

----------------------------------------------------------------------------
(* Timer *)

isRunning(tm) == tm.startTimestamp # Null

\* variant: start() without the test of isRunning()
TimerStartAlways(tm, clock) == [tm EXCEPT !.startTimestamp = clock]

TimerStart(tm, clock) ==
    IF isRunning(tm) THEN tm ELSE [tm EXCEPT !.startTimestamp = clock]

\* variant: pause() without the test of isRunning(); an absent
\* startTimestamp counts as 0 (startTimestamp ?? 0)
TimerPauseAlways(tm, clock) ==
    [startTimestamp |-> Null,
     accumulatedMs |-> tm.accumulatedMs
                         + (clock - (IF isRunning(tm) THEN tm.startTimestamp ELSE 0))]

TimerPause(tm, clock) ==
    IF ~isRunning(tm)
    THEN tm
    ELSE [startTimestamp |-> Null,
          accumulatedMs |-> tm.accumulatedMs + (clock - tm.startTimestamp)]

\* variant: reset() that leaves startTimestamp as it is
TimerResetKeepsStart(tm) == [tm EXCEPT !.accumulatedMs = 0]

TimerReset(tm) == [startTimestamp |-> Null, accumulatedMs |-> 0]

\* variant: the interval in progress is not counted
getElapsedMsAccumulated(tm, clock) == tm.accumulatedMs

getElapsedMs(tm, clock) ==
    IF ~isRunning(tm)
    THEN tm.accumulatedMs
    ELSE tm.accumulatedMs + (clock - tm.startTimestamp)

----------------------------------------------------------------------------
(* What one operation did: calls made on the timer, notifications fired,   *)
(* provider queried, console.error called, and how its promise ended.      *)

\* fault names the call that threw inside the operation, if one did.
NoFx == [started |-> 0, paused |-> 0, notified |-> 0, queried |-> FALSE,
         logged |-> FALSE, dropped |-> FALSE, outcome |-> "returned",
         fault |-> "none"]

\* the calls of the decision step that a collaborator may fail in:
\* timer.pause(), timer.start(), onStateChange()
Faults == {"none", "pause", "start", "notify"}

Step(m, tm, fx) == [monitor |-> m, timer |-> tm, fx |-> fx]

----------------------------------------------------------------------------
(* InactivityMonitor *)

\* variant: the marker is left set when the timer is resumed
markActivityKeepsMarker(m, tm, timestamp, clock) ==
    LET m1 == [m EXCEPT !.lastActivity = timestamp]
    IN  IF ~isRunning(tm) /\ m1.pausedByIdle
        THEN Step(m1, TimerStart(tm, clock),
                  [NoFx EXCEPT !.started = 1, !.notified = 1])
        ELSE Step(m1, tm, NoFx)

\* variant: resumes whenever the timer is not running
markActivityAnyPause(m, tm, timestamp, clock) ==
    LET m1 == [m EXCEPT !.lastActivity = timestamp]
    IN  IF ~isRunning(tm)
        THEN Step([m1 EXCEPT !.pausedByIdle = FALSE], TimerStart(tm, clock),
                  [NoFx EXCEPT !.started = 1, !.notified = 1])
        ELSE Step(m1, tm, NoFx)

\* variant: does nothing but record the timestamp while an evaluate is
\* in progress
markActivityUnlessEvaluating(m, tm, timestamp, clock) ==
    LET m1 == [m EXCEPT !.lastActivity = timestamp]
    IN  IF ~isRunning(tm) /\ m1.pausedByIdle /\ ~m1.evaluating
        THEN Step([m1 EXCEPT !.pausedByIdle = FALSE], TimerStart(tm, clock),
                  [NoFx EXCEPT !.started = 1, !.notified = 1])
        ELSE Step(m1, tm, NoFx)

\* variant: clears the marker and notifies without starting the timer
markActivityNoStart(m, tm, timestamp, clock) ==
    LET m1 == [m EXCEPT !.lastActivity = timestamp]
    IN  IF ~isRunning(tm) /\ m1.pausedByIdle
        THEN Step([m1 EXCEPT !.pausedByIdle = FALSE], tm,
                  [NoFx EXCEPT !.notified = 1])
        ELSE Step(m1, tm, NoFx)

markActivity(m, tm, timestamp, clock) ==
    LET m1 == [m EXCEPT !.lastActivity = timestamp]
    IN  IF ~isRunning(tm) /\ m1.pausedByIdle
        THEN Step([m1 EXCEPT !.pausedByIdle = FALSE], TimerStart(tm, clock),
                  [NoFx EXCEPT !.started = 1, !.notified = 1])
        ELSE Step(m1, tm, NoFx)

\* variant: the cached effective idle is kept
clearAutoPauseKeepsIdle(m, tm, clock) ==
    LET m1 == [m EXCEPT !.lastActivity = clock]
    IN  IF m1.pausedByIdle
        THEN Step([m1 EXCEPT !.pausedByIdle = FALSE], tm,
                  [NoFx EXCEPT !.notified = 1])
        ELSE Step(m1, tm, NoFx)

\* variant: restarts the timer when it clears the marker
clearAutoPauseStarts(m, tm, clock) ==
    LET m1 == [m EXCEPT !.lastActivity = clock, !.lastEffectiveIdleMs = 0]
    IN  IF m1.pausedByIdle
        THEN Step([m1 EXCEPT !.pausedByIdle = FALSE], TimerStart(tm, clock),
                  [NoFx EXCEPT !.started = 1, !.notified = 1])
        ELSE Step(m1, tm, NoFx)

\* variant: notifies on every call
clearAutoPauseAlwaysNotifies(m, tm, clock) ==
    LET m1 == [m EXCEPT !.lastActivity = clock, !.lastEffectiveIdleMs = 0]
    IN  Step([m1 EXCEPT !.pausedByIdle = FALSE], tm, [NoFx EXCEPT !.notified = 1])

clearAutoPause(m, tm, clock) ==
    LET m1 == [m EXCEPT !.lastActivity = clock, !.lastEffectiveIdleMs = 0]
    IN  IF m1.pausedByIdle
        THEN Step([m1 EXCEPT !.pausedByIdle = FALSE], tm,
                  [NoFx EXCEPT !.notified = 1])
        ELSE Step(m1, tm, NoFx)

\* variant: any number is trusted
isValidIdleAnyNumber(r) == r.kind = "number"

\* typeof idleSeconds === 'number' && Number.isFinite(idleSeconds) && idleSeconds >= 0
isValidIdle(r) == r.kind = "number" /\ r.value >= 0

\* variant: the provider's value is never taken over
idleMillisecondsDropped(r) == Undefined

\* idleMillisecondsFromSystem after lines 115-122
idleMillisecondsFromSystem(r) ==
    IF isValidIdle(r) THEN r.value * 1000 ELSE Undefined

\* variant: strict comparison
idleExceedsStrict(effectiveIdle, thresholdMs) == effectiveIdle > thresholdMs

\* variant: any effective idle counts as reaching the threshold
idleReachesAlways(effectiveIdle, thresholdMs) == effectiveIdle >= 0

\* line 132: effectiveIdle >= this.thresholdMs
idleReachesThreshold(effectiveIdle, thresholdMs) == effectiveIdle >= thresholdMs

\* variant: no finally block
evaluateAbortKeepsGuard(m, tm, fx) ==
    Step(m, tm, [fx EXCEPT !.outcome = "rejected"])

\* lines 143-145 when an exception leaves the try block: the guard is
\* cleared and, there being no catch, the promise is rejected
evaluateAbort(m, tm, fx) ==
    Step([m EXCEPT !.evaluating = FALSE], tm, [fx EXCEPT !.outcome = "rejected"])

\* variant: resumes also at the threshold
idleAtMostThreshold(effectiveIdle, thresholdMs) == effectiveIdle <= thresholdMs

\* line 137: effectiveIdle < this.thresholdMs
idleBelowThreshold(effectiveIdle, thresholdMs) == effectiveIdle < thresholdMs

\* variant: the system value is used only when it is smaller than the
\* local inactivity
evaluateMeasureFresher(m, evalNow, r) ==
    LET idleMs == idleMillisecondsFromSystem(r)
        elapsedSinceActivity == evalNow - m.lastActivity
        effectiveIdle == IF idleMs # Undefined /\ idleMs < elapsedSinceActivity
                         THEN idleMs
                         ELSE elapsedSinceActivity
        m1 == IF idleMs # Undefined /\ idleMs < m.thresholdMs
              THEN [m EXCEPT !.lastActivity = evalNow]
              ELSE m
    IN  [m1 EXCEPT !.lastSystemIdleMs = idleMs,
                   !.lastEffectiveIdleMs = effectiveIdle]

\* variant: the system signal does not refresh lastActivity
evaluateMeasureNoRefresh(m, evalNow, r) ==
    LET idleMs == idleMillisecondsFromSystem(r)
        elapsedSinceActivity == evalNow - m.lastActivity
        effectiveIdle == IF idleMs # Undefined THEN idleMs ELSE elapsedSinceActivity
    IN  [m EXCEPT !.lastSystemIdleMs = idleMs,
                  !.lastEffectiveIdleMs = effectiveIdle]

\* variant: the diagnostics are not cached
evaluateMeasureNoCache(m, evalNow, r) ==
    LET idleMs == idleMillisecondsFromSystem(r)
    IN  IF idleMs # Undefined /\ idleMs < m.thresholdMs
        THEN [m EXCEPT !.lastActivity = evalNow]
        ELSE m

\* lines 115-129: the refresh of lastActivity by the system signal, the
\* effective idle, and the cached diagnostics (lastEffectiveIdleMs holds
\* effectiveIdle).  evalNow is the now captured at line 96.
evaluateMeasure(m, evalNow, r) ==
    LET idleMs == idleMillisecondsFromSystem(r)
        m1 == IF idleMs # Undefined /\ idleMs < m.thresholdMs
              THEN [m EXCEPT !.lastActivity = evalNow]
              ELSE m
        elapsedSinceActivity == evalNow - m1.lastActivity
        effectiveIdle == IF idleMs # Undefined THEN idleMs ELSE elapsedSinceActivity
    IN  [m1 EXCEPT !.lastSystemIdleMs = idleMs,
                   !.lastEffectiveIdleMs = effectiveIdle]

\* variant: a resume leaves lastActivity as it was
resumeKeepsActivity(m, evalNow) == m

\* line 139: a resume counts as activity at the evaluate's now
resumeSetsActivity(m, evalNow) == [m EXCEPT !.lastActivity = evalNow]

\* lines 115-146: from the validity test to the finally block.
\* evalNow is the now captured at line 96, clock is Date.now() at this step,
\* fault is the call that throws if the step reaches it.
evaluateDecideWith(m, tm, evalNow, r, clock, fx0, fault) ==
    LET m2 == evaluateMeasure(m, evalNow, r)
        effectiveIdle == m2.lastEffectiveIdleMs
        fx == [fx0 EXCEPT !.outcome = "resolved"]
    IN  IF fault = "isRunning"
        THEN evaluateAbort(m2, tm, [fx EXCEPT !.fault = fault])
        ELSE IF isRunning(tm)
        THEN IF idleReachesThreshold(effectiveIdle, m2.thresholdMs)
             THEN IF fault = "pause"
                  THEN evaluateAbort(m2, tm, [fx EXCEPT !.paused = 1, !.fault = fault])
                  ELSE IF fault = "notify"
                  THEN evaluateAbort([m2 EXCEPT !.pausedByIdle = TRUE],
                                     TimerPause(tm, clock),
                                     [fx EXCEPT !.paused = 1, !.notified = 1,
                                                !.fault = fault])
                  ELSE Step([m2 EXCEPT !.pausedByIdle = TRUE, !.evaluating = FALSE],
                            TimerPause(tm, clock),
                            [fx EXCEPT !.paused = 1, !.notified = 1])
             ELSE Step([m2 EXCEPT !.evaluating = FALSE], tm, fx)
        ELSE IF m2.pausedByIdle /\ idleBelowThreshold(effectiveIdle, m2.thresholdMs)
             THEN IF fault = "start"
                  THEN evaluateAbort([m2 EXCEPT !.pausedByIdle = FALSE], tm,
                                     [fx EXCEPT !.started = 1, !.fault = fault])
                  ELSE IF fault = "notify"
                  THEN evaluateAbort(resumeSetsActivity([m2 EXCEPT !.pausedByIdle = FALSE],
                                                        evalNow),
                                     TimerStart(tm, clock),
                                     [fx EXCEPT !.started = 1, !.notified = 1,
                                                !.fault = fault])
                  ELSE Step(resumeSetsActivity([m2 EXCEPT !.pausedByIdle = FALSE,
                                                          !.evaluating = FALSE], evalNow),
                            TimerStart(tm, clock),
                            [fx EXCEPT !.started = 1, !.notified = 1])
             ELSE Step([m2 EXCEPT !.evaluating = FALSE], tm, fx)

\* the decision step with collaborators that do not throw
evaluateDecide(m, tm, evalNow, r, clock, fx0) ==
    evaluateDecideWith(m, tm, evalNow, r, clock, fx0, "none")

\* variant: no catch around the synchronous provider call
throwUncaught(fx) == [caught |-> FALSE, fx |-> fx]

\* lines 102-107: the catch around the synchronous provider call
catchProviderThrow(fx) == [caught |-> TRUE, fx |-> [fx EXCEPT !.logged = TRUE]]

\* variant: no .catch on the awaited result
rejectionUncaught(r, fx) ==
    [caught |-> r.kind # "rejected", result |-> r, fx |-> fx]

\* lines 110-113: the .catch on the awaited result
catchProviderReject(r, fx) ==
    IF r.kind = "rejected"
    THEN [caught |-> TRUE, result |-> NoResult, fx |-> [fx EXCEPT !.logged = TRUE]]
    ELSE [caught |-> TRUE, result |-> r, fx |-> fx]

\* variant: no re-entrancy guard
evaluateGuardAbsent(m) == FALSE

\* lines 89-91: the re-entrancy guard
evaluateGuard(m) == m.evaluating

\* lines 88-113: evaluate() up to its await, or to its end when it does not await.
\* A step with outcome "suspended" leaves the continuation in flight.
evaluateCallWith(m, tm, call, clock, fault) ==
    IF evaluateGuard(m)
    THEN Step(m, tm, [NoFx EXCEPT !.dropped = TRUE, !.outcome = "resolved"])
    ELSE LET m1 == [m EXCEPT !.evaluating = TRUE]
         IN  IF m1.idleTimeProvider = "none"
             THEN evaluateDecideWith(m1, tm, clock, NoResult, clock, NoFx, fault)
             ELSE LET fx1 == [NoFx EXCEPT !.queried = TRUE]
                  IN  IF call = "throws"
                      THEN LET c == catchProviderThrow(fx1)
                           IN  IF c.caught
                               THEN evaluateDecideWith(m1, tm, clock, NoResult, clock,
                                                       c.fx, fault)
                               ELSE evaluateAbort(m1, tm, c.fx)
                      ELSE Step(m1, tm, [fx1 EXCEPT !.outcome = "suspended"])

evaluateCall(m, tm, call, clock) == evaluateCallWith(m, tm, call, clock, "none")

\* lines 110-146: the continuation of evaluate() after the await
evaluateResumeWith(m, tm, evalNow, r, clock, fault) ==
    LET c == catchProviderReject(r, NoFx)
    IN  IF c.caught
        THEN evaluateDecideWith(m, tm, evalNow, c.result, clock, c.fx, fault)
        ELSE evaluateAbort(m, tm, c.fx)

evaluateResume(m, tm, evalNow, r, clock) ==
    evaluateResumeWith(m, tm, evalNow, r, clock, "none")

\* lines 158-160
isPausedByInactivity(m) == m.pausedByIdle

\* lines 162-168
getDiagnostics(m) ==
    [systemIdleMs |-> m.lastSystemIdleMs,
     effectiveIdleMs |-> m.lastEffectiveIdleMs,
     pausedByIdle |-> m.pausedByIdle]

----------------------------------------------------------------------------
(* The monitor with settings.  index.ts calls setEnabled and setThresholdMs *)
(* on the monitor; the class that has them is not among the sources, so    *)
(* these follow section 4.2 of the specification: the decision of step 6   *)
(* is taken only if enabled, everything before it is as above.             *)

setEnabled(m, enabled) == [m EXCEPT !.enabled = enabled]

setThresholdMs(m, ms) == [m EXCEPT !.thresholdMs = ms]

evaluateDecideGated(m, tm, evalNow, r, clock, fx0) ==
    IF m.enabled
    THEN evaluateDecide(m, tm, evalNow, r, clock, fx0)
    ELSE Step([evaluateMeasure(m, evalNow, r) EXCEPT !.evaluating = FALSE], tm,
              [fx0 EXCEPT !.outcome = "resolved"])

evaluateCallGated(m, tm, call, clock) ==
    IF evaluateGuard(m) \/ (m.idleTimeProvider # "none" /\ call = "returns")
    THEN evaluateCall(m, tm, call, clock)
    ELSE evaluateDecideGated([m EXCEPT !.evaluating = TRUE], tm, clock, NoResult, clock,
                             IF m.idleTimeProvider = "none"
                             THEN NoFx
                             ELSE catchProviderThrow([NoFx EXCEPT !.queried = TRUE]).fx)

evaluateResumeGated(m, tm, evalNow, r, clock) ==
    LET c == catchProviderReject(r, NoFx)
    IN  evaluateDecideGated(m, tm, evalNow, c.result, clock, c.fx)

----------------------------------------------------------------------------
(* Settings of the renderer.  A number is finite, held in tenths so that   *)
(* fractions can be stored, or NaN or an infinity.  A text is a sequence   *)
(* of characters.                                                          *)

DEFAULT_IDLE_DELAY_SECONDS == 60

DEFAULT_SETTINGS ==
    [afkHandlingEnabled |-> TRUE, afkIdleDelaySeconds |-> DEFAULT_IDLE_DELAY_SECONDS]

MinIdleDelaySeconds == 1

MaxIdleDelaySeconds == 1800

\* longest text typed or stored
MaxTextLen == 4

Chars == {"-", "0", "9", "x"}

Digits == {"0", "9"}

DigitValue(c) == IF c = "0" THEN 0 ELSE 9

Texts == UNION {[1..n -> Chars] : n \in 0..MaxTextLen}

Finite(tenths) == [kind |-> "finite", tenths |-> tenths]

NaN == [kind |-> "NaN", tenths |-> 0]

Infinite == [kind |-> "Infinity", tenths |-> 0]

isFinite(v) == v.kind = "finite"

\* the value of the longest prefix of digits of text from position i on,
\* given the value acc of the digits read so far
RECURSIVE parseDigits(_, _, _)
parseDigits(text, i, acc) ==
    IF i <= Len(text) /\ text[i] \in Digits
    THEN parseDigits(text, i + 1, acc * 10 + DigitValue(text[i]))
    ELSE acc

\* Number.parseInt(text, 10): an optional sign, then the longest prefix of
\* digits; NaN when there is no digit
parseInt(text) ==
    LET negative == Len(text) >= 1 /\ text[1] = "-"
        first == IF negative THEN 2 ELSE 1
    IN  IF first <= Len(text) /\ text[first] \in Digits
        THEN Finite((IF negative THEN -10 ELSE 10) * parseDigits(text, first, 0))
        ELSE NaN

\* Math.round of a finite number: the nearest integer, halves upwards
round(v) == (v.tenths + 5) \div 10

min(a, b) == IF a <= b THEN a ELSE b

max(a, b) == IF a >= b THEN a ELSE b

\* variant: no lower bound
clampIdleDelaySecondsUnbounded(value) ==
    IF ~isFinite(value)
    THEN DEFAULT_SETTINGS.afkIdleDelaySeconds
    ELSE min(MaxIdleDelaySeconds, round(value))

\* index.ts 99-105
clampIdleDelaySeconds(value) ==
    IF ~isFinite(value)
    THEN DEFAULT_SETTINGS.afkIdleDelaySeconds
    ELSE min(MaxIdleDelaySeconds, max(MinIdleDelaySeconds, round(value)))

\* what localStorage holds under the settings key: nothing, a text that
\* JSON.parse rejects, or that is not an object with fields (null), or an
\* object whose afkIdleDelaySeconds is missing, a number, a text or
\* something else, and whose afkHandlingEnabled is a boolean or not
StoredNumbers ==
    {Finite(t) : t \in {-15, -5, 0, 4, 5, 14, 15, 600, 17994, 17995, 18000, 18005, 999999}}
        \cup {Infinite}

StoredDelays ==
    {[kind |-> "missing"], [kind |-> "other"]}
        \cup {[kind |-> "number", value |-> v] : v \in StoredNumbers}
        \cup {[kind |-> "text", value |-> t] : t \in Texts}

StoredEnabled == {"true", "false", "other"}

StoredSettings ==
    {[kind |-> k] : k \in {"absent", "malformed", "null"}}
        \cup {[kind |-> "object", afkHandlingEnabled |-> e, afkIdleDelaySeconds |-> d]
                 : e \in StoredEnabled, d \in StoredDelays}

\* String(value ?? '') of a stored afkIdleDelaySeconds that is not a number:
\* the text itself, the empty text when missing, else a text without digits
stringOf(d) ==
    IF d.kind = "text" THEN d.value
    ELSE IF d.kind = "missing" THEN <<>>
    ELSE <<"x">>

\* index.ts 107-134
loadSettings(stored) ==
    IF stored.kind \in {"absent", "malformed", "null"}
    THEN DEFAULT_SETTINGS
    ELSE LET parsedIdle == IF stored.afkIdleDelaySeconds.kind = "number"
                           THEN stored.afkIdleDelaySeconds.value
                           ELSE parseInt(stringOf(stored.afkIdleDelaySeconds))
         IN  [afkHandlingEnabled |->
                  IF stored.afkHandlingEnabled = "other"
                  THEN DEFAULT_SETTINGS.afkHandlingEnabled
                  ELSE stored.afkHandlingEnabled = "true",
              afkIdleDelaySeconds |->
                  IF isFinite(parsedIdle)
                  THEN clampIdleDelaySeconds(parsedIdle)
                  ELSE DEFAULT_SETTINGS.afkIdleDelaySeconds]

\* index.ts 324-344: the settings after commitThresholdChange with rawValue
\* in the input
commitThresholdChange(settings, rawValue) ==
    IF rawValue = <<>> \/ ~isFinite(parseInt(rawValue))
    THEN settings
    ELSE [settings EXCEPT
            !.afkIdleDelaySeconds = clampIdleDelaySeconds(parseInt(rawValue))]

----------------------------------------------------------------------------
(* Click handlers of initializeTimerUI *)

\* handleUserActivity: markActivity() with the default timestamp Date.now()
handleUserActivity(s, clock) ==
    LET a == markActivity(s.monitor, s.timer, clock, clock)
    IN  Step(a.monitor, a.timer,
             [a.fx EXCEPT !.started = s.fx.started + a.fx.started,
                          !.notified = s.fx.notified + a.fx.notified])

\* variant: the handler does not tell the monitor
startPauseClickSilent(m, tm, clock) ==
    LET tm1 == IF isRunning(tm) THEN TimerPause(tm, clock) ELSE TimerStart(tm, clock)
    IN  handleUserActivity(Step(m, tm1, NoFx), clock)

\* startPauseButton click: timer.pause() or timer.start(), clearAutoPause(),
\* handleUserActivity()
startPauseClick(m, tm, clock) ==
    LET tm1 == IF isRunning(tm) THEN TimerPause(tm, clock) ELSE TimerStart(tm, clock)
    IN  handleUserActivity(clearAutoPause(m, tm1, clock), clock)

\* resetButton click: timer.reset(), clearAutoPause(), handleUserActivity()
resetClick(m, tm, clock) ==
    handleUserActivity(clearAutoPause(m, TimerReset(tm), clock), clock)

\* syncDisplay: resetButton.disabled = running || elapsed === 0
resetDisabled(tm, clock) == isRunning(tm) \/ getElapsedMs(tm, clock) = 0

----------------------------------------------------------------------------
(* The todo store of src/main/main.ts.  Numbers are as above: finite and   *)
(* held in tenths, or an infinity (JSON.parse gives one for 1e999).  A     *)
(* title or createdAt is a short text, "" when empty; createdAt of a new   *)
(* record is always "t".                                                   *)

\* most records in the file read at initialization
MaxStored == 2

\* most todos created in one run
MaxCreates == 2

\* a value that is not a number (a text, null, or a missing field)
NotNumber == [kind |-> "other", tenths |-> 0]

\* typeof v === 'number'
isNumber(v) == v.kind \in {"finite", "Infinity", "NaN"}

\* Math.floor
floor(v) == IF isFinite(v) THEN Finite((v.tenths \div 10) * 10) ELSE v

\* a > b on numbers
greater(a, b) ==
    \/ isFinite(a) /\ isFinite(b) /\ a.tenths > b.tenths
    \/ a.kind = "Infinity" /\ isFinite(b)

\* Math.max(a, b) on numbers that are not NaN
mathMax(a, b) == IF greater(b, a) THEN b ELSE a

\* Math.max(...ids) of a non-empty list
maxId(todos) ==
    LET ids == {todos[i].id : i \in 1..Len(todos)}
    IN  CHOOSE a \in ids : \A b \in ids : ~greater(b, a)

\* v + 1
plusOne(v) == IF isFinite(v) THEN Finite(v.tenths + 10) ELSE v

\* Boolean(v) of a number or undefined
truthy(v) == isNumber(v) /\ v.kind # "NaN" /\ ~(isFinite(v) /\ v.tenths = 0)

\* main.ts 56-59
DEFAULT_STATE == [nextId |-> Finite(10), todos |-> <<>>]

\* main.ts 61-62: storePath and state are undefined until initialization
NoStore ==
    [initialized |-> FALSE, state |-> DEFAULT_STATE, file |-> [kind |-> "absent"],
     returned |-> <<>>]

\* ids and nextId a file may hold
FileIds == {NotNumber, Finite(-10), Finite(0), Finite(15), Finite(20), Infinite}

FileNextIds == {NotNumber, Finite(-10), Finite(5), Finite(30), Infinite}

\* items of the todos array of a file: complete ones, one with an empty
\* title and one with an empty createdAt (a field that is missing or not a
\* text is dropped by the same test as an empty one)
FileItems ==
    {[id |-> i, title |-> "a", completed |-> c, createdAt |-> "t"]
        : i \in FileIds, c \in BOOLEAN}
        \cup {[id |-> Finite(20), title |-> "", completed |-> FALSE, createdAt |-> "t"],
              [id |-> Finite(20), title |-> "a", completed |-> FALSE, createdAt |-> ""]}

\* what is at storePath: no file, a blank file, a text that JSON.parse
\* rejects or that is null, or an object whose todos is an array or not
Files ==
    {[kind |-> k] : k \in {"absent", "blank", "malformed"}}
        \cup {[kind |-> "object", nextId |-> n, isArray |-> FALSE, todos |-> <<>>]
                 : n \in FileNextIds}
        \cup {[kind |-> "object", nextId |-> n, isArray |-> TRUE, todos |-> t]
                 : n \in FileNextIds,
                   t \in UNION {[1..k -> FileItems] : k \in 0..MaxStored}}

\* main.ts 97-102: the fields of an item, by their types
mapItem(item) ==
    [id |-> IF isNumber(item.id) THEN floor(item.id) ELSE NotNumber,
     title |-> item.title,
     completed |-> item.completed,
     createdAt |-> item.createdAt]

\* main.ts 103
keepItem(item) == truthy(item.id) /\ item.title # "" /\ item.createdAt # ""

\* main.ts 80-114
loadStateFromDisk(file) ==
    IF file.kind \in {"absent", "blank", "malformed"}
    THEN DEFAULT_STATE
    ELSE LET nextId == IF /\ isNumber(file.nextId)
                          /\ isFinite(file.nextId)
                          /\ file.nextId.tenths > 0
                       THEN floor(file.nextId)
                       ELSE DEFAULT_STATE.nextId
             todos == IF file.isArray
                      THEN SelectSeq([i \in 1..Len(file.todos) |-> mapItem(file.todos[i])],
                                     keepItem)
                      ELSE <<>>
         IN  [nextId |-> IF Len(todos) > 0
                         THEN mathMax(nextId, plusOne(maxId(todos)))
                         ELSE nextId,
              todos |-> todos]

\* JSON.stringify of a number: null for an infinity
stringifyNumber(v) == IF isFinite(v) THEN v ELSE NotNumber

\* main.ts 125-126: the file that persistState writes
stringify(state) ==
    [kind |-> "object", nextId |-> stringifyNumber(state.nextId), isArray |-> TRUE,
     todos |-> [i \in 1..Len(state.todos) |->
                   [state.todos[i] EXCEPT !.id = stringifyNumber(@)]]]

\* titles passed to createTodo: blank, one that trims to "a", one longer
\* than 500 characters
Titles == {" ", " a ", "long"}

\* String.prototype.trim
trim(title) == IF title = " " THEN "" ELSE IF title = " a " THEN "a" ELSE title

\* main.ts 131-143: the error thrown, if any
sanitizeTitleError(title) ==
    IF trim(title) = "" THEN "empty"
    ELSE IF trim(title) = "long" THEN "too long"
    ELSE "none"

\* what a call of the store did: the store afterwards, and what it returned
\* or threw
Outcome(s, kind, value) == [store |-> s, result |-> [kind |-> kind, value |-> value]]

\* main.ts 145-149
initializeTodoStore(s) ==
    [s EXCEPT !.initialized = TRUE, !.state = loadStateFromDisk(s.file)]

\* main.ts 151-154
listTodos(s) == s.state.todos

\* main.ts 116-127, called with state: the store after a write that
\* succeeded
persistState(s, state) == [s EXCEPT !.state = state, !.file = stringify(state)]

\* variant: nextId stays incremented when the write fails
createTodoKeepsNextId(s, title, written) ==
    IF ~s.initialized THEN Outcome(s, "threw", "not initialized")
    ELSE IF sanitizeTitleError(title) # "none"
    THEN Outcome(s, "threw", sanitizeTitleError(title))
    ELSE LET record == [id |-> s.state.nextId, title |-> trim(title),
                        completed |-> FALSE, createdAt |-> "t"]
             mutated == [nextId |-> plusOne(s.state.nextId),
                         todos |-> <<record>> \o s.state.todos]
         IN  IF written
             THEN Outcome([persistState(s, mutated) EXCEPT
                              !.returned = Append(@, record.id)],
                          "returned", record)
             ELSE Outcome([s EXCEPT !.state = [mutated EXCEPT !.todos = Tail(@)]],
                          "threw", "write")

\* main.ts 156-180; written tells whether persistState returns or throws
createTodo(s, title, written) ==
    IF ~s.initialized THEN Outcome(s, "threw", "not initialized")
    ELSE IF sanitizeTitleError(title) # "none"
    THEN Outcome(s, "threw", sanitizeTitleError(title))
    ELSE LET record == [id |-> s.state.nextId, title |-> trim(title),
                        completed |-> FALSE, createdAt |-> "t"]
             mutated == [nextId |-> plusOne(s.state.nextId),
                         todos |-> <<record>> \o s.state.todos]
         IN  IF written
             THEN Outcome([persistState(s, mutated) EXCEPT
                              !.returned = Append(@, record.id)],
                          "returned", record)
             ELSE Outcome([s EXCEPT !.state = [mutated EXCEPT !.todos = Tail(@),
                                                              !.nextId = record.id]],
                          "threw", "write")

\* Array.prototype.find by id: the index of the first match, 0 if none
findIndex(todos, id) ==
    IF \E i \in 1..Len(todos) : todos[i].id = id
    THEN CHOOSE i \in 1..Len(todos) :
             /\ todos[i].id = id
             /\ \A j \in 1..(i - 1) : todos[j].id # id
    ELSE 0

\* main.ts 182-202
setTodoCompleted(s, id, completed, written) ==
    IF ~s.initialized THEN Outcome(s, "threw", "not initialized")
    ELSE LET i == findIndex(s.state.todos, id)
         IN  IF i = 0 THEN Outcome(s, "returned", "undefined")
             ELSE LET previousCompleted == s.state.todos[i].completed
                      mutated == [s.state EXCEPT !.todos[i].completed = completed]
                  IN  IF written
                      THEN Outcome(persistState(s, mutated), "returned", mutated.todos[i])
                      ELSE Outcome([s EXCEPT !.state =
                                       [mutated EXCEPT !.todos[i].completed =
                                                           previousCompleted]],
                                   "threw", "write")

\* main.ts 204-224
deleteTodo(s, id, written) ==
    IF ~s.initialized THEN Outcome(s, "threw", "not initialized")
    ELSE LET previousTodos == s.state.todos
             filtered == SelectSeq(s.state.todos, LAMBDA item : item.id # id)
         IN  IF Len(filtered) = Len(previousTodos) THEN Outcome(s, "returned", FALSE)
             ELSE IF written
             THEN Outcome(persistState(s, [s.state EXCEPT !.todos = filtered]),
                          "returned", TRUE)
             ELSE Outcome([s EXCEPT !.state.todos = previousTodos], "threw", "write")

----------------------------------------------------------------------------
(* State machine *)

\* no second monitor
NoTwin == [present |-> FALSE]

\* The last operation: its name, its argument (the timestamp of markActivity,
\* the now captured by the evaluate that continues), what the provider's
\* result settled to, the local inactivity an evaluate found (its now minus
\* lastActivity as it was when the decision began), and what it did.
Last(op, arg, r, local, fx) ==
    [op |-> op, arg |-> arg, result |-> r, local |-> local, fx |-> fx]

\* initializeTimerUI has returned: the monitor is constructed on a Timer
\* and window.setInterval(evaluateAndRender, 250) is set
Polling == [stage |-> "polling", controls |-> TRUE, timerGiven |-> TRUE]

\* the running time of a timer that was never started
NotRun == [on |-> FALSE, totalMs |-> 0]

Init ==
    /\ now = 0
    /\ timer = [startTimestamp |-> Null, accumulatedMs |-> 0]
    /\ \E th \in Thresholds, p \in ProviderKinds :
           monitor = [pausedByIdle |-> FALSE, evaluating |-> FALSE,
                      lastActivity |-> 0, lastSystemIdleMs |-> Undefined,
                      lastEffectiveIdleMs |-> 0, thresholdMs |-> th,
                      idleTimeProvider |-> p]
    /\ pending = <<>>
    /\ last = Last("init", Null, NoResult, 0, NoFx)
    /\ twin = NoTwin
    /\ stale = "no"
    /\ ran = NotRun
    /\ boot = Polling
    /\ systemActivity = Null
    /\ currentSettings = DEFAULT_SETTINGS
    /\ resumed = "none"
    /\ store = NoStore

\* Date.now() advances
Tick ==
    /\ now + ClockStepMs \in Times
    /\ now' = now + ClockStepMs
    /\ last' = Last("tick", Null, NoResult, 0, NoFx)
    /\ UNCHANGED <<timer, monitor, pending, twin, stale, ran, boot, systemActivity,
                   currentSettings, resumed, store>>

\* History of a stale decision: "activity" once markActivity() was called
\* with the current time while an evaluate is suspended; "paused" once the
\* continuation of that evaluate has nevertheless paused the timer, until
\* the next evaluate decides or another call intervenes; "corrected" or
\* "kept" right after that next evaluate resumed the timer or left it
\* paused; "no" otherwise.
staleAfter(op, arg, fx) ==
    IF op = "markActivity"
    THEN IF pending # <<>> /\ arg = now THEN "activity" ELSE "no"
    ELSE IF op = "evaluate" /\ (fx.dropped \/ fx.outcome = "suspended")
    THEN IF stale \in {"activity", "paused"} THEN stale ELSE "no"
    ELSE IF op \in {"evaluate", "evaluateResume"}
    THEN IF stale = "activity" /\ fx.paused = 1 /\ fx.fault = "none"
         THEN "paused"
         ELSE IF stale = "paused"
         THEN IF fx.started = 1 /\ fx.fault = "none" THEN "corrected" ELSE "kept"
         ELSE "no"
    ELSE "no"

\* the step s of operation op takes effect
Record(s, op, arg, r, local) ==
    /\ monitor' = s.monitor
    /\ timer' = s.timer
    /\ last' = Last(op, arg, r, local, s.fx)
    /\ stale' = staleAfter(op, arg, s.fx)
    /\ UNCHANGED <<ran, boot>>

Apply(s, op, arg, r, local) ==
    /\ Record(s, op, arg, r, local)
    /\ UNCHANGED <<systemActivity, currentSettings, resumed, store>>

MarkActivity ==
    \E timestamp \in Times :
        /\ Apply(markActivity(monitor, timer, timestamp, now),
                 "markActivity", timestamp, NoResult, 0)
        /\ UNCHANGED <<now, pending, twin>>

ClearAutoPause ==
    /\ Apply(clearAutoPause(monitor, timer, now), "clearAutoPause", Null, NoResult, 0)
    /\ UNCHANGED <<now, pending, twin>>

Evaluate ==
    \E call \in ProviderCalls :
        LET s == evaluateCall(monitor, timer, call, now)
        IN  /\ Apply(s, "evaluate", Null, NoResult,
                     IF s.fx.dropped \/ s.fx.outcome = "suspended"
                     THEN 0 ELSE now - monitor.lastActivity)
            /\ pending' = IF s.fx.outcome = "suspended"
                          THEN Append(pending, now)
                          ELSE pending
            /\ UNCHANGED <<now, twin>>

EvaluateResume ==
    \E i \in 1..Len(pending), r \in ProviderResults :
        /\ Apply(evaluateResume(monitor, timer, pending[i], r, now),
                 "evaluateResume", pending[i], r, pending[i] - monitor.lastActivity)
        /\ pending' = SubSeq(pending, 1, i - 1) \o SubSeq(pending, i + 1, Len(pending))
        /\ UNCHANGED <<now, twin>>

ClickStartPause ==
    /\ Apply(startPauseClick(monitor, timer, now),
             IF isRunning(timer) THEN "manualPause" ELSE "manualStart",
             Null, NoResult, 0)
    /\ UNCHANGED <<now, pending, twin>>

ClickReset ==
    /\ ~resetDisabled(timer, now)
    /\ Apply(resetClick(monitor, timer, now), "manualReset", Null, NoResult, 0)
    /\ UNCHANGED <<now, pending, twin>>

Next ==
    \/ Tick
    \/ ClickStartPause
    \/ ClickReset
    \/ MarkActivity
    \/ ClearAutoPause
    \/ Evaluate
    \/ EvaluateResume

Spec == Init /\ [][Next]_vars

----------------------------------------------------------------------------
(* The monitor with collaborators that may throw: the TimerLike handed to  *)
(* the constructor may throw in pause() or start(), and onStateChange may  *)
(* throw, when evaluate() calls them.                                      *)

FaultyEvaluate ==
    \E call \in ProviderCalls, fault \in Faults :
        LET s == evaluateCallWith(monitor, timer, call, now, fault)
        IN  /\ Apply(s, "evaluate", Null, NoResult,
                     IF s.fx.dropped \/ s.fx.outcome = "suspended"
                     THEN 0 ELSE now - monitor.lastActivity)
            /\ pending' = IF s.fx.outcome = "suspended"
                          THEN Append(pending, now)
                          ELSE pending
            /\ UNCHANGED <<now, twin>>

FaultyEvaluateResume ==
    \E i \in 1..Len(pending), r \in ProviderResults, fault \in Faults :
        /\ Apply(evaluateResumeWith(monitor, timer, pending[i], r, now, fault),
                 "evaluateResume", pending[i], r, pending[i] - monitor.lastActivity)
        /\ pending' = SubSeq(pending, 1, i - 1) \o SubSeq(pending, i + 1, Len(pending))
        /\ UNCHANGED <<now, twin>>

NextFaulty ==
    \/ Tick
    \/ ClickStartPause
    \/ ClickReset
    \/ MarkActivity
    \/ ClearAutoPause
    \/ FaultyEvaluate
    \/ FaultyEvaluateResume

SpecFaulty == Init /\ [][NextFaulty]_vars

----------------------------------------------------------------------------
(* The monitor as the renderer drives it: markActivity() is called without *)
(* argument, so its timestamp is Date.now(), and the provider may settle   *)
(* to any value.                                                           *)

\* resumed is "local" once markActivity() has resumed the timer while an
\* evaluate is suspended; "once" or "twice" after the continuation of an
\* evaluate that found it "local" and obtained a valid idle time below
\* thresholdMs, as timer.start() was called once or twice for the resume;
\* "none" otherwise.
MarkActivityNow ==
    LET s == markActivity(monitor, timer, now, now)
    IN  /\ Record(s, "markActivity", now, NoResult, 0)
        /\ resumed' = IF pending # <<>> /\ s.fx.started = 1 THEN "local" ELSE resumed
        /\ UNCHANGED <<now, pending, twin, systemActivity, currentSettings, store>>

\* systemActivity is the now of the latest evaluate to which the system
\* reported activity: a valid idle time below thresholdMs (lines 118-120)
EvaluateResumeAny ==
    \E i \in 1..Len(pending), r \in ProviderValues :
        /\ Record(evaluateResume(monitor, timer, pending[i], r, now),
                  "evaluateResume", pending[i], r, pending[i] - monitor.lastActivity)
        /\ resumed' = IF resumed = "local" /\ isValidIdle(r)
                          /\ r.value * 1000 < monitor.thresholdMs
                      THEN IF evaluateResume(monitor, timer, pending[i], r, now).fx.started = 0
                           THEN "once"
                           ELSE "twice"
                      ELSE "none"
        /\ systemActivity' = IF isValidIdle(r) /\ r.value * 1000 < monitor.thresholdMs
                             THEN pending[i]
                             ELSE systemActivity
        /\ UNCHANGED <<currentSettings, store>>
        /\ pending' = SubSeq(pending, 1, i - 1) \o SubSeq(pending, i + 1, Len(pending))
        /\ UNCHANGED <<now, twin>>

NextNow ==
    \/ Tick
    \/ ClickStartPause
    \/ ClickReset
    \/ MarkActivityNow
    \/ ClearAutoPause
    \/ Evaluate
    \/ EvaluateResumeAny

SpecNow == Init /\ [][NextNow]_vars

----------------------------------------------------------------------------
(* The settings panel: the settings are loaded, the monitor is constructed *)
(* with them, and the panel changes them.                                  *)

\* variant: the activity is forwarded without clearAutoPause()
applySettingsForwardsOnly(m, tm, settings, clock) ==
    handleUserActivity(
        Step(setEnabled(setThresholdMs(m, settings.afkIdleDelaySeconds * 1000),
                        settings.afkHandlingEnabled),
             tm, NoFx),
        clock)

\* index.ts 304-311: setThresholdMs, setEnabled, clearAutoPause,
\* handleUserActivity
applySettings(m, tm, settings, clock) ==
    handleUserActivity(
        clearAutoPause(setEnabled(setThresholdMs(m, settings.afkIdleDelaySeconds * 1000),
                                  settings.afkHandlingEnabled),
                       tm, clock),
        clock)

\* index.ts 540-543 with 167-177 and 362: loadSettings, the constructor,
\* setEnabled, and the applySettings that ends initializeSettingsPanel
InitPanel ==
    /\ now = 0
    /\ timer = [startTimestamp |-> Null, accumulatedMs |-> 0]
    /\ pending = <<>>
    /\ twin = NoTwin
    /\ stale = "no"
    /\ ran = NotRun
    /\ boot = Polling
    /\ systemActivity = Null
    /\ resumed = "none"
    /\ store = NoStore
    /\ \E stored \in StoredSettings, p \in ProviderKinds :
           /\ currentSettings = loadSettings(stored)
           /\ monitor = applySettings(
                            [pausedByIdle |-> FALSE, evaluating |-> FALSE,
                             lastActivity |-> 0, lastSystemIdleMs |-> Undefined,
                             lastEffectiveIdleMs |-> 0,
                             thresholdMs |-> loadSettings(stored).afkIdleDelaySeconds * 1000,
                             idleTimeProvider |-> p,
                             enabled |-> loadSettings(stored).afkHandlingEnabled],
                            timer, loadSettings(stored), 0).monitor
           /\ last = Last("loadSettings", stored, NoResult, 0, NoFx)

\* index.ts 324-349, on change or blur of the threshold input; last.arg is
\* what Number.parseInt made of the text
CommitThresholdChange ==
    \E rawValue \in Texts :
        LET settings == commitThresholdChange(currentSettings, rawValue)
            committed == rawValue # <<>> /\ isFinite(parseInt(rawValue))
            s == IF committed
                 THEN applySettings(monitor, timer, settings, now)
                 ELSE Step(monitor, timer, NoFx)
        IN  /\ currentSettings' = settings
            /\ Record(s, "commitThresholdChange", parseInt(rawValue), NoResult, 0)
            /\ UNCHANGED <<now, pending, twin, systemActivity, resumed, store>>

\* index.ts 313-322, on change of the toggle
AfkToggleChange ==
    \E checked \in BOOLEAN :
        LET settings == [currentSettings EXCEPT !.afkHandlingEnabled = checked]
        IN  /\ currentSettings' = settings
            /\ Record(applySettings(monitor, timer, settings, now),
                      "afkToggleChange", checked, NoResult, 0)
            /\ UNCHANGED <<now, pending, twin, systemActivity, resumed, store>>

NextPanel ==
    \/ CommitThresholdChange
    \/ AfkToggleChange

SpecPanel == InitPanel /\ [][NextPanel]_vars

----------------------------------------------------------------------------
(* Initialization.  The monitor is constructed either by initializeTimerUI, *)
(* which first looks up the timer controls in the document, or directly by  *)
(* a caller, as the tests do, who may hand it no timer.  boot.stage is      *)
(* "none" before, "failed" when initialization threw, "constructed" after   *)
(* the constructor returned, "polling" once the interval is set.            *)

\* lines 60-76: the field initializers and the constructor, which stores
\* its arguments and tests none of them
construct(m, clock) ==
    [m EXCEPT !.pausedByIdle = FALSE, !.evaluating = FALSE,
              !.lastActivity = clock, !.lastSystemIdleMs = Undefined,
              !.lastEffectiveIdleMs = 0]

\* index.ts 144-156: getUIElements throws unless every control is found
getUIElementsThrows(controls) == ~controls

\* line 81 on a monitor without timer: lastActivity is written, then
\* this.timer.isRunning() throws
markActivityWithoutTimer(m, tm, timestamp) ==
    Step([m EXCEPT !.lastActivity = timestamp], tm,
         [NoFx EXCEPT !.outcome = "threw", !.fault = "isRunning"])

InitBoot ==
    /\ now = 0
    /\ timer = [startTimestamp |-> Null, accumulatedMs |-> 0]
    /\ \E th \in Thresholds, p \in ProviderKinds :
           monitor = [pausedByIdle |-> FALSE, evaluating |-> FALSE,
                      lastActivity |-> 0, lastSystemIdleMs |-> Undefined,
                      lastEffectiveIdleMs |-> 0, thresholdMs |-> th,
                      idleTimeProvider |-> p]
    /\ pending = <<>>
    /\ last = Last("init", Null, NoResult, 0, NoFx)
    /\ twin = NoTwin
    /\ stale = "no"
    /\ ran = NotRun
    /\ \E c \in BOOLEAN :
           boot = [stage |-> "none", controls |-> c, timerGiven |-> TRUE]
    /\ systemActivity = Null
    /\ currentSettings = DEFAULT_SETTINGS
    /\ resumed = "none"
    /\ store = NoStore

\* index.ts 158-269: new Timer(), getUIElements(), new InactivityMonitor(),
\* the listeners, setInterval, handleUserActivity()
InitializeTimerUI ==
    /\ boot.stage = "none"
    /\ IF getUIElementsThrows(boot.controls)
       THEN /\ boot' = [boot EXCEPT !.stage = "failed"]
            /\ last' = Last("initializeTimerUI", Null, NoResult, 0,
                            [NoFx EXCEPT !.outcome = "threw"])
            /\ UNCHANGED <<timer, monitor>>
       ELSE LET s == handleUserActivity(Step(construct(monitor, now), timer, NoFx), now)
            IN  /\ boot' = [boot EXCEPT !.stage = "polling"]
                /\ monitor' = s.monitor
                /\ timer' = s.timer
                /\ last' = Last("initializeTimerUI", Null, NoResult, 0, s.fx)
    /\ UNCHANGED <<now, pending, twin, stale, ran, systemActivity, currentSettings, resumed, store>>

\* new InactivityMonitor(timer, thresholdMs, provider, onStateChange) by a
\* caller, with or without a timer
Construct ==
    \E given \in BOOLEAN :
        /\ boot.stage = "none"
        /\ boot' = [boot EXCEPT !.stage = "constructed", !.timerGiven = given]
        /\ monitor' = construct(monitor, now)
        /\ timer' = IF given THEN timer ELSE Undefined
        /\ last' = Last("construct", Null, NoResult, 0, NoFx)
        /\ UNCHANGED <<now, pending, twin, stale, ran, systemActivity, currentSettings, resumed, store>>

\* a monitor exists and has its timer
Constructed == boot.stage \in {"constructed", "polling"} /\ boot.timerGiven

\* a monitor exists and has no timer
WithoutTimer == boot.stage = "constructed" /\ ~boot.timerGiven

MarkActivityWithoutTimer ==
    \E timestamp \in NearTimes(now) :
        /\ WithoutTimer
        /\ Apply(markActivityWithoutTimer(monitor, timer, timestamp),
                 "markActivity", timestamp, NoResult, 0)
        /\ UNCHANGED <<now, pending, twin>>

EvaluateWithoutTimer ==
    \E call \in ProviderCalls :
        LET s == evaluateCallWith(monitor, timer, call, now, "isRunning")
        IN  /\ WithoutTimer
            /\ Apply(s, "evaluate", Null, NoResult,
                     IF s.fx.dropped \/ s.fx.outcome = "suspended"
                     THEN 0 ELSE now - monitor.lastActivity)
            /\ pending' = IF s.fx.outcome = "suspended"
                          THEN Append(pending, now)
                          ELSE pending
            /\ UNCHANGED <<now, twin>>

EvaluateResumeWithoutTimer ==
    \E i \in 1..Len(pending), r \in ProviderResults :
        /\ WithoutTimer
        /\ Apply(evaluateResumeWith(monitor, timer, pending[i], r, now, "isRunning"),
                 "evaluateResume", pending[i], r, pending[i] - monitor.lastActivity)
        /\ pending' = SubSeq(pending, 1, i - 1) \o SubSeq(pending, i + 1, Len(pending))
        /\ UNCHANGED <<now, twin>>

NextBoot ==
    \/ Tick
    \/ InitializeTimerUI
    \/ Construct
    \/ boot.stage = "polling" /\ ClickStartPause
    \/ boot.stage = "polling" /\ ClickReset
    \/ Constructed /\ MarkActivity
    \/ Constructed /\ Evaluate
    \/ Constructed /\ EvaluateResume
    \/ boot.stage \in {"constructed", "polling"} /\ ClearAutoPause
    \/ MarkActivityWithoutTimer
    \/ EvaluateWithoutTimer
    \/ EvaluateResumeWithoutTimer

SpecBoot == InitBoot /\ [][NextBoot]_vars

----------------------------------------------------------------------------
(* The Timer on its own, called as timer.test.ts calls it: start, pause    *)
(* and reset in any order with the clock advanced between them.  ran is    *)
(* kept beside the timer: on from a start() to the next pause() or         *)
(* reset(), totalMs the time that passed while on since construction or    *)
(* the last reset().  last.arg is the instant of the call, last.local the  *)
(* length of the interval in progress when it was made.                    *)

ClockSteps == {PollIntervalMs, ClockStepMs}

InProgressMs == IF isRunning(timer) THEN now - timer.startTimestamp ELSE 0

TimerTick ==
    \E d \in ClockSteps :
        /\ now + d <= MaxTicks * ClockStepMs
        /\ now' = now + d
        /\ ran' = [ran EXCEPT !.totalMs = IF ran.on THEN @ + d ELSE @]
        /\ last' = Last("tick", now, NoResult, InProgressMs, NoFx)
        /\ UNCHANGED <<timer, monitor, pending, twin, stale, boot, systemActivity,
                       currentSettings, resumed, store>>

Start ==
    /\ timer' = TimerStart(timer, now)
    /\ ran' = [ran EXCEPT !.on = TRUE]
    /\ last' = Last("start", now, NoResult, InProgressMs, NoFx)
    /\ UNCHANGED <<now, monitor, pending, twin, stale, boot, systemActivity,
                   currentSettings, resumed, store>>

Pause ==
    /\ timer' = TimerPause(timer, now)
    /\ ran' = [ran EXCEPT !.on = FALSE]
    /\ last' = Last("pause", now, NoResult, InProgressMs, NoFx)
    /\ UNCHANGED <<now, monitor, pending, twin, stale, boot, systemActivity,
                   currentSettings, resumed, store>>

Reset ==
    /\ timer' = TimerReset(timer)
    /\ ran' = NotRun
    /\ last' = Last("reset", now, NoResult, InProgressMs, NoFx)
    /\ UNCHANGED <<now, monitor, pending, twin, stale, boot, systemActivity,
                   currentSettings, resumed, store>>

NextTimer ==
    \/ TimerTick
    \/ Start
    \/ Pause
    \/ Reset

SpecTimer == Init /\ [][NextTimer]_vars

----------------------------------------------------------------------------
(* The monitor with settings: enabled and a threshold that can be set.     *)

InitSettings ==
    /\ now = 0
    /\ timer = [startTimestamp |-> Null, accumulatedMs |-> 0]
    /\ \E th \in Thresholds, p \in ProviderKinds, e \in BOOLEAN :
           monitor = [pausedByIdle |-> FALSE, evaluating |-> FALSE,
                      lastActivity |-> 0, lastSystemIdleMs |-> Undefined,
                      lastEffectiveIdleMs |-> 0, thresholdMs |-> th,
                      idleTimeProvider |-> p, enabled |-> e]
    /\ pending = <<>>
    /\ last = Last("init", Null, NoResult, 0, NoFx)
    /\ twin = NoTwin
    /\ stale = "no"
    /\ ran = NotRun
    /\ boot = Polling
    /\ systemActivity = Null
    /\ currentSettings = DEFAULT_SETTINGS
    /\ resumed = "none"
    /\ store = NoStore

SetEnabled ==
    \E e \in BOOLEAN :
        /\ Apply(Step(setEnabled(monitor, e), timer, NoFx), "setEnabled", Null, NoResult, 0)
        /\ UNCHANGED <<now, pending, twin>>

SetThresholdMs ==
    \E ms \in Thresholds :
        /\ Apply(Step(setThresholdMs(monitor, ms), timer, NoFx),
                 "setThresholdMs", Null, NoResult, 0)
        /\ UNCHANGED <<now, pending, twin>>

GatedEvaluate ==
    \E call \in ProviderCalls :
        LET s == evaluateCallGated(monitor, timer, call, now)
        IN  /\ Apply(s, "evaluate", Null, NoResult,
                     IF s.fx.dropped \/ s.fx.outcome = "suspended"
                     THEN 0 ELSE now - monitor.lastActivity)
            /\ pending' = IF s.fx.outcome = "suspended"
                          THEN Append(pending, now)
                          ELSE pending
            /\ UNCHANGED <<now, twin>>

GatedEvaluateResume ==
    \E i \in 1..Len(pending), r \in ProviderResults :
        /\ Apply(evaluateResumeGated(monitor, timer, pending[i], r, now),
                 "evaluateResume", pending[i], r, pending[i] - monitor.lastActivity)
        /\ pending' = SubSeq(pending, 1, i - 1) \o SubSeq(pending, i + 1, Len(pending))
        /\ UNCHANGED <<now, twin>>

NextSettings ==
    \/ Tick
    \/ ClickStartPause
    \/ ClickReset
    \/ MarkActivity
    \/ ClearAutoPause
    \/ SetEnabled
    \/ SetThresholdMs
    \/ GatedEvaluate
    \/ GatedEvaluateResume

SpecSettings == InitSettings /\ [][NextSettings]_vars

----------------------------------------------------------------------------
(* Settings applied while the timer and the poll run: applySettings is     *)
(* called by the toggle and by a committed threshold, with the settings    *)
(* they have just stored.                                                  *)

\* idle delays of one and two seconds
IdleDelays == {MinIdleDelaySeconds, MinIdleDelaySeconds + 1}

InitApply ==
    /\ now = 0
    /\ timer = [startTimestamp |-> Null, accumulatedMs |-> 0]
    /\ pending = <<>>
    /\ last = Last("init", Null, NoResult, 0, NoFx)
    /\ twin = NoTwin
    /\ stale = "no"
    /\ ran = NotRun
    /\ boot = Polling
    /\ systemActivity = Null
    /\ resumed = "none"
    /\ store = NoStore
    /\ \E d \in IdleDelays, e \in BOOLEAN, p \in ProviderKinds :
           /\ currentSettings = [afkHandlingEnabled |-> e, afkIdleDelaySeconds |-> d]
           /\ monitor = [pausedByIdle |-> FALSE, evaluating |-> FALSE,
                         lastActivity |-> 0, lastSystemIdleMs |-> Undefined,
                         lastEffectiveIdleMs |-> 0, thresholdMs |-> d * 1000,
                         idleTimeProvider |-> p, enabled |-> e]

\* index.ts 313-322 and 339-348: the settings are stored, then applied
ApplySettings ==
    \E d \in IdleDelays, e \in BOOLEAN :
        LET settings == [afkHandlingEnabled |-> e, afkIdleDelaySeconds |-> d]
        IN  /\ (d = currentSettings.afkIdleDelaySeconds
                 \/ e = currentSettings.afkHandlingEnabled)
            /\ currentSettings' = settings
            /\ Record(applySettings(monitor, timer, settings, now),
                      "applySettings", Null, NoResult, 0)
            /\ UNCHANGED <<now, pending, twin, systemActivity, resumed, store>>

NextApply ==
    \/ Tick
    \/ ClickStartPause
    \/ ClickReset
    \/ MarkActivityNow
    \/ ApplySettings
    \/ GatedEvaluate
    \/ GatedEvaluateResume

SpecApply == InitApply /\ [][NextApply]_vars

----------------------------------------------------------------------------
(* The todo store, called in any order; each write to the file succeeds or *)
(* throws.  store.returned lists the ids that createTodo returned.         *)

InitTodos ==
    /\ now = 0
    /\ timer = [startTimestamp |-> Null, accumulatedMs |-> 0]
    /\ monitor = [pausedByIdle |-> FALSE, evaluating |-> FALSE,
                  lastActivity |-> 0, lastSystemIdleMs |-> Undefined,
                  lastEffectiveIdleMs |-> 0, thresholdMs |-> DEFAULT_IDLE_DELAY_SECONDS * 1000,
                  idleTimeProvider |-> "none"]
    /\ pending = <<>>
    /\ last = Last("init", Null, NoResult, 0, NoFx)
    /\ twin = NoTwin
    /\ stale = "no"
    /\ ran = NotRun
    /\ boot = Polling
    /\ systemActivity = Null
    /\ currentSettings = DEFAULT_SETTINGS
    /\ resumed = "none"
    /\ \E file \in Files : store = [NoStore EXCEPT !.file = file]

\* one call of the store; last.local is 1 if its write to the file succeeds
\* and 0 if it throws
Call(o, op, arg, written) ==
    /\ store' = o.store
    /\ last' = Last(op, arg, o.result, IF written THEN 1 ELSE 0, NoFx)
    /\ UNCHANGED <<now, timer, monitor, pending, twin, stale, ran, boot,
                   systemActivity, currentSettings, resumed>>

InitializeTodoStore ==
    /\ ~store.initialized
    /\ Call(Outcome(initializeTodoStore(store), "returned", "undefined"),
            "initializeTodoStore", Null, TRUE)

\* the ids in the store; setTodoCompleted and deleteTodo are called with
\* one of them or with 1
StoredIds == {store.state.todos[i].id : i \in 1..Len(store.state.todos)}

CreateTodo ==
    \E title \in Titles, written \in BOOLEAN :
        /\ Len(store.returned) < MaxCreates
        /\ Call(createTodo(store, title, written), "createTodo", title, written)

SetTodoCompleted ==
    \E id \in StoredIds \cup {Finite(10)}, completed \in BOOLEAN, written \in BOOLEAN :
        Call(setTodoCompleted(store, id, completed, written), "setTodoCompleted", id, written)

DeleteTodo ==
    \E id \in StoredIds \cup {Finite(10)}, written \in BOOLEAN :
        Call(deleteTodo(store, id, written), "deleteTodo", id, written)

NextTodos ==
    \/ InitializeTodoStore
    \/ CreateTodo
    \/ SetTodoCompleted
    \/ DeleteTodo

SpecTodos == InitTodos /\ [][NextTodos]_vars

----------------------------------------------------------------------------
(* Two monitors side by side.  The first has a provider that fails on      *)
(* every call (it throws, or it returns a result that is rejected); the    *)
(* second, twin, has no provider.  Each has its own timer, and both        *)
(* receive the same calls at the same times.  calls and ownCalls count the *)
(* timer.start(), timer.pause() and notifications of the twin and of the   *)
(* first monitor; interleaved records that a call was made while an        *)
(* evaluate of the first monitor was suspended.                            *)

NoCalls == [started |-> 0, paused |-> 0, notified |-> 0]

AddCalls(c, fx) ==
    [started |-> c.started + fx.started,
     paused |-> c.paused + fx.paused,
     notified |-> c.notified + fx.notified]

WithinCalls(c) ==
    c.started <= MaxCalls /\ c.paused <= MaxCalls /\ c.notified <= MaxCalls

InitTwin ==
    /\ now = 0
    /\ timer = [startTimestamp |-> Null, accumulatedMs |-> 0]
    /\ \E th \in Thresholds :
           LET m == [pausedByIdle |-> FALSE, evaluating |-> FALSE,
                     lastActivity |-> 0, lastSystemIdleMs |-> Undefined,
                     lastEffectiveIdleMs |-> 0, thresholdMs |-> th,
                     idleTimeProvider |-> "present"]
           IN  /\ monitor = m
               /\ twin = [present |-> TRUE,
                          monitor |-> [m EXCEPT !.idleTimeProvider = "none"],
                          timer |-> timer,
                          calls |-> NoCalls, ownCalls |-> NoCalls,
                          interleaved |-> FALSE]
    /\ pending = <<>>
    /\ last = Last("init", Null, NoResult, 0, NoFx)
    /\ stale = "no"
    /\ ran = NotRun
    /\ boot = Polling
    /\ systemActivity = Null
    /\ currentSettings = DEFAULT_SETTINGS
    /\ resumed = "none"
    /\ store = NoStore

\* s is the step of the first monitor, t the step of the twin
Both(s, t, op, arg, local) ==
    /\ Apply(s, op, arg, NoResult, local)
    /\ twin' = [twin EXCEPT !.monitor = t.monitor,
                            !.timer = t.timer,
                            !.calls = AddCalls(@, t.fx),
                            !.ownCalls = AddCalls(@, s.fx),
                            !.interleaved = @ \/ pending # <<>>]
    /\ WithinCalls(twin'.calls)
    /\ WithinCalls(twin'.ownCalls)

TwinMarkActivity ==
    \E timestamp \in NearTimes(now) :
        /\ Both(markActivity(monitor, timer, timestamp, now),
                markActivity(twin.monitor, twin.timer, timestamp, now),
                "markActivity", timestamp, 0)
        /\ UNCHANGED <<now, pending>>

TwinClearAutoPause ==
    /\ Both(clearAutoPause(monitor, timer, now),
            clearAutoPause(twin.monitor, twin.timer, now),
            "clearAutoPause", Null, 0)
    /\ UNCHANGED <<now, pending>>

TwinClickStartPause ==
    /\ Both(startPauseClick(monitor, timer, now),
            startPauseClick(twin.monitor, twin.timer, now),
            IF isRunning(timer) THEN "manualPause" ELSE "manualStart", Null, 0)
    /\ UNCHANGED <<now, pending>>

TwinEvaluate ==
    \E call \in ProviderCalls :
        LET s == evaluateCall(monitor, timer, call, now)
        IN  /\ Both(s, evaluateCall(twin.monitor, twin.timer, call, now),
                    "evaluate", Null,
                    IF s.fx.dropped \/ s.fx.outcome = "suspended"
                    THEN 0 ELSE now - monitor.lastActivity)
            /\ pending' = IF s.fx.outcome = "suspended"
                          THEN Append(pending, now)
                          ELSE pending
            /\ UNCHANGED now

\* the result of the first monitor's provider is rejected
TwinEvaluateResume ==
    \E i \in 1..Len(pending) :
        LET r == [kind |-> "rejected", value |-> 0]
            s == evaluateResume(monitor, timer, pending[i], r, now)
        IN  /\ Apply(s, "evaluateResume", pending[i], r, pending[i] - monitor.lastActivity)
            /\ twin' = [twin EXCEPT !.ownCalls = AddCalls(@, s.fx)]
            /\ WithinCalls(twin'.ownCalls)
            /\ pending' = SubSeq(pending, 1, i - 1) \o SubSeq(pending, i + 1, Len(pending))
            /\ UNCHANGED now

NextTwin ==
    \/ Tick
    \/ TwinMarkActivity
    \/ TwinClearAutoPause
    \/ TwinClickStartPause
    \/ TwinEvaluate
    \/ TwinEvaluateResume

SpecTwin == InitTwin /\ [][NextTwin]_vars

----------------------------------------------------------------------------
(* The three logical states of (timer.isRunning(), pausedByIdle) *)

Active == isRunning(timer) /\ ~monitor.pausedByIdle

AutoPaused == ~isRunning(timer) /\ monitor.pausedByIdle

ManuallyPaused == ~isRunning(timer) /\ ~monitor.pausedByIdle

\* the operation a step performs, and what it did
Did(op) == last'.op = op

NoTimerCall(fx) == fx.started = 0 /\ fx.paused = 0

----------------------------------------------------------------------------
(* Re-entrancy *)

\* C1: an evaluate() called while an earlier one is suspended on the idle
\* query is dropped: it resolves without querying the provider, changes
\* neither the monitor nor the timer, fires no notification and leaves no
\* continuation behind; at most one evaluate is in flight at any time.
C1_ReentrantEvaluateDropped ==
    /\ [](Len(pending) <= 1)
    /\ [][(pending # <<>> /\ Did("evaluate"))
            => /\ monitor' = monitor
               /\ timer' = timer
               /\ pending' = pending
               /\ last'.fx = [NoFx EXCEPT !.dropped = TRUE, !.outcome = "resolved"]]_vars

C1_Witness ==
    /\ last.op = "evaluate"
    /\ last.fx.dropped
    /\ Len(pending) = 1

\* C2: pausedByIdle implies that the timer is not running, in every state
\* reachable by the monitor's operations, suspended evaluates and the click
\* handlers.
C2_PausedByIdleNotRunning == monitor.pausedByIdle => ~isRunning(timer)

C2_Witness ==
    /\ AutoPaused
    /\ last.op = "evaluateResume"
    /\ last.fx.paused = 1

----------------------------------------------------------------------------
(* Local inactivity, no provider *)

\* C3: without a provider, an evaluate() on a running timer pauses it (one
\* pause call, one notification) exactly when now - lastActivity has reached
\* thresholdMs, and an evaluate() on the auto-paused timer while it is still
\* idle leaves it paused, calls nothing and notifies nothing.
C3_LocalAutoPauseOnce ==
    [][(monitor.idleTimeProvider = "none" /\ Did("evaluate"))
        => /\ (isRunning(timer) /\ now - monitor.lastActivity >= monitor.thresholdMs)
                => /\ ~isRunning(timer')
                   /\ monitor'.pausedByIdle
                   /\ last'.fx.paused = 1
                   /\ last'.fx.started = 0
                   /\ last'.fx.notified = 1
           /\ (isRunning(timer) /\ now - monitor.lastActivity < monitor.thresholdMs)
                => /\ timer' = timer
                   /\ ~monitor'.pausedByIdle
                   /\ NoTimerCall(last'.fx)
                   /\ last'.fx.notified = 0
           /\ (AutoPaused /\ now - monitor.lastActivity >= monitor.thresholdMs)
                => /\ timer' = timer
                   /\ monitor'.pausedByIdle
                   /\ NoTimerCall(last'.fx)
                   /\ last'.fx.notified = 0]_vars

\* an evaluate() that found the timer auto-paused and still idle
C3_Witness ==
    /\ monitor.idleTimeProvider = "none"
    /\ last.op = "evaluate"
    /\ AutoPaused
    /\ last.fx.paused = 0
    /\ last.local >= monitor.thresholdMs

----------------------------------------------------------------------------
(* Manual pause *)

\* C4: from the state ManuallyPaused (not running, pausedByIdle false) no
\* step other than a manual start calls timer.start(), starts the timer or
\* sets pausedByIdle, whatever the provider returns and also when the step is
\* the continuation of an evaluate that was in flight.
C4_ManualPauseSticky ==
    [][(ManuallyPaused /\ ~Did("manualStart"))
        => /\ ~isRunning(timer')
           /\ ~monitor'.pausedByIdle
           /\ last'.fx.started = 0]_vars

\* the continuation of an evaluate finds a timer that was run and paused
\* by hand, with a provider value that reports activity
C4_Witness ==
    /\ last.op = "evaluateResume"
    /\ ManuallyPaused
    /\ timer.accumulatedMs > 0
    /\ isValidIdle(last.result)
    /\ last.result.value * 1000 < monitor.thresholdMs

\* C5: markActivity(t) sets lastActivity to t; from AutoPaused it clears
\* pausedByIdle, calls timer.start() once and notifies once in the same
\* step; from Active and ManuallyPaused it changes neither the timer nor
\* pausedByIdle and does not notify.
C5_MarkActivity ==
    [][Did("markActivity")
        => /\ monitor'.lastActivity = last'.arg
           /\ IF AutoPaused
              THEN /\ isRunning(timer')
                   /\ ~monitor'.pausedByIdle
                   /\ last'.fx.started = 1
                   /\ last'.fx.notified = 1
              ELSE /\ timer' = timer
                   /\ monitor'.pausedByIdle = monitor.pausedByIdle
                   /\ last'.fx.started = 0
                   /\ last'.fx.notified = 0
           /\ last'.fx.paused = 0]_vars

\* markActivity resumed while an evaluate was suspended
C5_Witness ==
    /\ last.op = "markActivity"
    /\ last.fx.started = 1
    /\ Active
    /\ pending # <<>>

----------------------------------------------------------------------------
(* System idle time *)

\* C6: an evaluate() whose provider value is valid and below thresholdMs
\* does not pause a running timer, however stale lastActivity is.
C6_SystemActivityPreventsPause ==
    [][(Did("evaluateResume") /\ isValidIdle(last'.result)
            /\ last'.result.value * 1000 < monitor.thresholdMs)
        => /\ last'.fx.paused = 0
           /\ ~monitor'.pausedByIdle
           /\ isRunning(timer)
                => /\ timer' = timer
                   /\ last'.fx.notified = 0]_vars

\* the local inactivity alone had reached the threshold
C6_Witness ==
    /\ last.op = "evaluateResume"
    /\ isValidIdle(last.result)
    /\ last.result.value * 1000 < monitor.thresholdMs
    /\ last.local >= monitor.thresholdMs
    /\ isRunning(timer)

\* the provider failed in the step: it threw in the call, or its result
\* was rejected
ProviderFailed ==
    \/ Did("evaluate") /\ last'.fx.queried /\ last'.fx.outcome # "suspended"
    \/ Did("evaluateResume") /\ last'.result.kind = "rejected"

\* C7: when the provider throws or its result is rejected, the evaluate()
\* resolves, logs the failure, and still updates the diagnostics and takes
\* the pause/resume decision, on the local inactivity.
C7_ProviderFailureTolerated ==
    [][ProviderFailed
        => /\ last'.fx.outcome = "resolved"
           /\ last'.fx.logged
           /\ ~monitor'.evaluating
           /\ monitor'.lastSystemIdleMs = Undefined
           /\ monitor'.lastEffectiveIdleMs = last'.local
           /\ (isRunning(timer) /\ last'.local >= monitor.thresholdMs)
                => (~isRunning(timer') /\ monitor'.pausedByIdle /\ last'.fx.paused = 1)
           /\ (AutoPaused /\ last'.local < monitor.thresholdMs)
                => (isRunning(timer') /\ ~monitor'.pausedByIdle /\ last'.fx.started = 1)]_vars

\* a rejected result, and the timer paused in the same continuation
C7_Witness ==
    /\ last.op = "evaluateResume"
    /\ last.result.kind = "rejected"
    /\ last.fx.logged
    /\ last.fx.paused = 1
    /\ AutoPaused

----------------------------------------------------------------------------
(* A provider that always fails *)

\* both monitors made the same calls on their timers, fired the same
\* notifications and have the same pausedByIdle
SameDecisions ==
    /\ twin.ownCalls = twin.calls
    /\ monitor.pausedByIdle = twin.monitor.pausedByIdle
    /\ isRunning(timer) = isRunning(twin.timer)

\* C8 as stated: whenever no evaluate is in flight, the monitor whose
\* provider always fails has decided exactly like the monitor without a
\* provider.
C8_FailingProviderLikeNoProvider ==
    (twin.present /\ pending = <<>>) => SameDecisions

\* C8, amended: the same, provided no call was made while an evaluate of
\* the failing monitor was suspended on the result that is then rejected;
\* the two monitors then also agree on lastActivity and on the diagnostics,
\* which are those of the local inactivity.
C8_FailingProviderLikeNoProviderInOrder ==
    (twin.present /\ pending = <<>> /\ ~twin.interleaved)
        => /\ SameDecisions
           /\ monitor = [twin.monitor EXCEPT !.idleTimeProvider = "present"]

\* a rejection that arrived after the clock moved, and paused the timer
C8_Witness ==
    /\ twin.present
    /\ ~twin.interleaved
    /\ last.op = "evaluateResume"
    /\ last.arg < now
    /\ last.fx.paused = 1
    /\ twin.calls.paused = 1

----------------------------------------------------------------------------
(* clearAutoPause and notifications *)

\* C9: clearAutoPause() never calls timer.start() or timer.pause(); it sets
\* lastActivity to the current time and lastEffectiveIdleMs to 0, leaves
\* pausedByIdle false, and notifies once exactly when pausedByIdle was true.
C9_ClearAutoPause ==
    [][Did("clearAutoPause")
        => /\ timer' = timer
           /\ NoTimerCall(last'.fx)
           /\ monitor'.lastActivity = now
           /\ monitor'.lastEffectiveIdleMs = 0
           /\ ~monitor'.pausedByIdle
           /\ last'.fx.notified = (IF monitor.pausedByIdle THEN 1 ELSE 0)]_vars

C9_Witness ==
    /\ last.op = "clearAutoPause"
    /\ last.fx.notified = 1
    /\ ManuallyPaused
    /\ now > 0

\* C10: every step notifies once if it changes pausedByIdle and not at all
\* if it leaves pausedByIdle unchanged.
C10_NotifyPerChange ==
    [][last'.fx.notified = (IF monitor'.pausedByIdle # monitor.pausedByIdle THEN 1 ELSE 0)]_vars

\* a click on Start from AutoPaused: clearAutoPause notifies, the
\* markActivity that follows does not
C10_Witness ==
    /\ last.op = "manualStart"
    /\ last.fx.notified = 1
    /\ Active

----------------------------------------------------------------------------
(* Internal failures of evaluate() *)

\* C11: whenever no evaluate is in flight the guard evaluating is false,
\* also after an evaluate in which the provider failed or in which
\* timer.pause(), timer.start() or onStateChange threw, and an evaluate()
\* called then is not dropped.
C11_GuardClearedOnEveryExit ==
    /\ [](pending = <<>> => ~monitor.evaluating)
    /\ [][(pending = <<>> /\ Did("evaluate")) => ~last'.fx.dropped]_vars

\* an evaluate ended by a throwing collaborator
C11_Witness ==
    /\ last.fx.fault # "none"
    /\ last.fx.outcome = "rejected"
    /\ pending = <<>>
    /\ ~monitor.evaluating

\* C12: the promise of evaluate() is not rejected, also when timer.pause(),
\* timer.start() or onStateChange throws in the decision step.
C12_EvaluateNeverRejects ==
    (last.op \in {"evaluate", "evaluateResume"}) => last.fx.outcome # "rejected"

----------------------------------------------------------------------------
(* A suspended evaluate *)

\* C13: as long as the result of the provider has not settled, the evaluate
\* stays in flight and the guard stays set; every further evaluate() is
\* dropped and changes nothing, no step pauses the timer, its only starts
\* are those of markActivity() and of the Start button, nothing throws,
\* markActivity() still resumes an auto-paused timer and clearAutoPause()
\* still clears the marker.
C13_StalledEvaluate ==
    [][(pending # <<>> /\ ~Did("evaluateResume"))
        => /\ pending' = pending
           /\ monitor'.evaluating
           /\ last'.fx.paused = 0
           /\ last'.fx.outcome # "rejected"
           /\ Did("evaluate")
                => (last'.fx.dropped /\ monitor' = monitor /\ timer' = timer)
           /\ last'.fx.started = 1
                => (AutoPaused /\ last'.op \in {"markActivity", "manualStart"})
           /\ (Did("markActivity") /\ AutoPaused)
                => /\ isRunning(timer')
                   /\ ~monitor'.pausedByIdle
                   /\ last'.fx.started = 1
                   /\ last'.fx.notified = 1
           /\ Did("clearAutoPause")
                => (~monitor'.pausedByIdle /\ monitor'.lastActivity = now
                        /\ timer' = timer)]_vars

\* markActivity resumed the timer while the evaluate had been in flight
\* for at least one clock step
C13_Witness ==
    /\ pending # <<>>
    /\ pending[1] < now
    /\ last.op = "markActivity"
    /\ last.fx.started = 1
    /\ isRunning(timer)

\* an evaluate that takes its decision in the step: one that does not
\* await, or the continuation of one that did
Decides ==
    \/ Did("evaluateResume")
    \/ Did("evaluate") /\ ~last'.fx.dropped /\ last'.fx.outcome # "suspended"

\* C14 as stated: after an evaluate has paused the timer although
\* markActivity() was called while it was suspended, the next evaluate that
\* decides returns the timer to running.
C14_NextEvaluateResumes ==
    [][(stale = "paused" /\ Decides) => isRunning(timer')]_vars

\* C14, amended: the next evaluate that decides returns the timer to
\* running (one start call, one notification, pausedByIdle cleared) exactly
\* when the effective idle it computes is below thresholdMs, and leaves it
\* auto-paused otherwise.
C14_NextEvaluateResumesIfActive ==
    [][(stale = "paused" /\ Decides)
        => /\ AutoPaused
           /\ IF monitor'.lastEffectiveIdleMs < monitor.thresholdMs
              THEN /\ isRunning(timer')
                   /\ ~monitor'.pausedByIdle
                   /\ last'.fx.started = 1
                   /\ last'.fx.notified = 1
              ELSE /\ timer' = timer
                   /\ monitor'.pausedByIdle
                   /\ last'.fx.started = 0
                   /\ last'.fx.notified = 0
           /\ (~isValidIdle(last'.result) /\ last'.local < monitor.thresholdMs)
                => isRunning(timer')
           /\ (isValidIdle(last'.result)
                    /\ last'.result.value * 1000 < monitor.thresholdMs)
                => isRunning(timer')]_vars

\* the stale pause was corrected by the continuation of the next evaluate
C14_Witness ==
    /\ stale = "corrected"
    /\ last.op = "evaluateResume"
    /\ last.fx.started = 1
    /\ isRunning(timer)

----------------------------------------------------------------------------
(* Settings *)

\* the effective idle of the deciding evaluate: the provider's value in
\* milliseconds if it is valid, else the local inactivity
EffectiveIdleOfStep ==
    IF isValidIdle(last'.result) THEN last'.result.value * 1000 ELSE last'.local

----------------------------------------------------------------------------
(* Pause and resume with a provider *)

\* the now a deciding evaluate captured at line 96: the clock of the step
\* when it did not suspend, else the clock of the call it continues
EvalNowOfStep == IF Did("evaluate") THEN now ELSE last'.arg

\* C16: with a provider, an evaluate() that decides on a running timer with
\* a valid reported idle time of at least thresholdMs pauses it: the timer
\* stops, pausedByIdle is set, pause is called once and one notification
\* fires.  One that decides on an AutoPaused timer resumes it if and only
\* if the effective idle is below thresholdMs: then pausedByIdle is
\* cleared, start is called once, lastActivity is the now of that
\* evaluate and one notification fires; otherwise the timer stays
\* AutoPaused and nothing is called.
C16_ProviderPauseResume ==
    [][(Decides /\ monitor.idleTimeProvider # "none")
        => /\ (isRunning(timer) /\ isValidIdle(last'.result)
                /\ last'.result.value * 1000 >= monitor.thresholdMs)
                => /\ ~isRunning(timer')
                   /\ monitor'.pausedByIdle
                   /\ last'.fx.paused = 1 /\ last'.fx.started = 0
                   /\ last'.fx.notified = 1
           /\ (AutoPaused /\ EffectiveIdleOfStep < monitor.thresholdMs)
                => /\ isRunning(timer')
                   /\ ~monitor'.pausedByIdle
                   /\ last'.fx.started = 1 /\ last'.fx.paused = 0
                   /\ monitor'.lastActivity = EvalNowOfStep
                   /\ last'.fx.notified = 1
           /\ (AutoPaused /\ EffectiveIdleOfStep >= monitor.thresholdMs)
                => /\ ~isRunning(timer')
                   /\ monitor'.pausedByIdle
                   /\ NoTimerCall(last'.fx)
                   /\ last'.fx.notified = 0]_vars

\* an evaluate with a provider has resumed an AutoPaused timer on a valid
\* idle time, later than the activity recorded before
C16_Witness ==
    /\ monitor.idleTimeProvider # "none"
    /\ last.op = "evaluateResume"
    /\ isValidIdle(last.result)
    /\ last.fx.started = 1
    /\ isRunning(timer)
    /\ ~monitor.pausedByIdle
    /\ last.arg > 0
    /\ monitor.lastActivity = last.arg

----------------------------------------------------------------------------
(* Timer *)

\* C17: after any sequence of start() and pause() calls since construction
\* or the last reset(), with the clock advancing between them,
\* getElapsedMs() is the total time that passed while the timer was
\* running: time spent paused adds nothing, and a start after a pause
\* continues from the accumulated total.
C17_ElapsedIsRunningTime ==
    getElapsedMs(timer, now) = ran.totalMs

\* running again after a pause during which time passed, with time
\* accumulated before the pause and an interval in progress
C17_Witness ==
    /\ isRunning(timer)
    /\ timer.accumulatedMs > 0
    /\ now > timer.startTimestamp
    /\ ran.totalMs < now
    /\ getElapsedMs(timer, now) = timer.accumulatedMs + (now - timer.startTimestamp)

\* what is common to C18 as stated and as amended: isRunning() holds exactly
\* when startTimestamp is a timestamp, getElapsedMs() is never negative,
\* and it does not decrease over a step that leaves the timer running
RunningElapsedMonotone ==
    /\ isRunning(timer) <=> timer.startTimestamp \in Nat
    /\ getElapsedMs(timer, now) >= 0
    /\ (isRunning(timer) /\ isRunning(timer'))
         => getElapsedMs(timer', now') >= getElapsedMs(timer, now)

\* C18 as stated: moreover getElapsedMs() is the same before and after any
\* step that leaves the timer paused.
C18_ElapsedMonotone ==
    [][/\ RunningElapsedMonotone
       /\ (~isRunning(timer) /\ ~isRunning(timer'))
            => getElapsedMs(timer', now') = getElapsedMs(timer, now)]_vars

\* C18 amended: moreover getElapsedMs() is the same before and after any
\* step other than reset() that leaves the timer paused.
C18_ElapsedMonotoneUnlessReset ==
    [][/\ RunningElapsedMonotone
       /\ (~isRunning(timer) /\ ~isRunning(timer') /\ ~Did("reset"))
            => getElapsedMs(timer', now') = getElapsedMs(timer, now)]_vars

\* the clock has advanced over a paused timer that holds time
C18_Witness ==
    /\ last.op = "tick"
    /\ ~isRunning(timer)
    /\ getElapsedMs(timer, now) > 0
    /\ getElapsedMs(timer, now) = getElapsedMs(timer, last.arg)

\* C19: start() on a running timer, pause() on a paused timer and reset()
\* right after reset() change nothing, and an operation called right after
\* the same operation at the same instant changes nothing.
C19_TimerIdempotent ==
    [][/\ (Did("start") /\ isRunning(timer)) => timer' = timer
       /\ (Did("pause") /\ ~isRunning(timer)) => timer' = timer
       /\ (Did("reset") /\ last.op = "reset") => timer' = timer
       /\ \A op \in {"start", "pause", "reset"} :
              (Did(op) /\ last.op = op /\ last.arg = now) => timer' = timer]_vars

\* start() was called on a timer running for some time, and the elapsed
\* time still counts from the first start
C19_Witness ==
    /\ last.op = "start"
    /\ last.local > 0
    /\ isRunning(timer)
    /\ timer.startTimestamp = last.arg - last.local
    /\ getElapsedMs(timer, now) >= last.local

\* C20: reset() leaves the timer not running with getElapsedMs() = 0 and
\* nothing accumulated, whether it was running or paused and whatever the
\* interval in progress; pause() on a running timer adds now minus
\* startTimestamp to accumulatedMs and clears startTimestamp.
C20_ResetDropsInterval ==
    [][/\ Did("reset")
            => /\ ~isRunning(timer')
               /\ getElapsedMs(timer', now') = 0
               /\ timer'.accumulatedMs = 0
       /\ (Did("pause") /\ isRunning(timer))
            => /\ ~isRunning(timer')
               /\ timer'.accumulatedMs
                    = timer.accumulatedMs + (now - timer.startTimestamp)]_vars

\* reset() was called on a running timer with an interval in progress
C20_Witness ==
    /\ last.op = "reset"
    /\ last.local > 0
    /\ ~isRunning(timer)
    /\ getElapsedMs(timer, now) = 0

----------------------------------------------------------------------------
(* Initialization *)

\* C21: when a required collaborator is missing at initialization (no
\* timer handed to the monitor, or the timer controls absent from the
\* document), initialization has failed, no monitor exists and no
\* evaluate() runs or is in flight.
C21_MissingCollaboratorFailsConstruction ==
    (boot.stage # "none" /\ (~boot.timerGiven \/ boot.stage = "failed"))
        => /\ boot.stage = "failed"
           /\ last.op \notin {"evaluate", "evaluateResume"}
           /\ pending = <<>>

----------------------------------------------------------------------------
(* The state table *)

\* C22: pausedByIdle becomes true only in an evaluate() step that finds the
\* timer running with effectiveIdle >= thresholdMs and pauses it; the
\* monitor calls timer.pause() only in such a step; and the monitor calls
\* timer.start() only from the AutoPaused state, in markActivity or in an
\* evaluate() whose effectiveIdle is below thresholdMs.
C22_OnlyTableTransitions ==
    [][/\ (~monitor.pausedByIdle /\ monitor'.pausedByIdle)
            => /\ Decides
               /\ isRunning(timer)
               /\ EffectiveIdleOfStep >= monitor.thresholdMs
               /\ last'.fx.paused = 1
               /\ ~isRunning(timer')
       /\ last'.fx.paused > 0
            => /\ Decides
               /\ isRunning(timer)
               /\ EffectiveIdleOfStep >= monitor.thresholdMs
               /\ monitor'.pausedByIdle
       /\ last'.fx.started > 0
            => /\ AutoPaused
               /\ \/ Did("markActivity")
                  \/ Decides /\ EffectiveIdleOfStep < monitor.thresholdMs]_vars

\* an evaluate whose idle query was rejected has paused the timer on the
\* local inactivity
C22_Witness ==
    /\ last.op = "evaluateResume"
    /\ last.result.kind = "rejected"
    /\ last.fx.paused = 1
    /\ monitor.pausedByIdle
    /\ ~isRunning(timer)
    /\ last.local >= monitor.thresholdMs

----------------------------------------------------------------------------
(* Untrusted provider values *)

\* the idle query of the step settled to a value that is not a
\* non-negative finite number
UntrustedValue ==
    /\ Did("evaluateResume")
    /\ last'.result.kind # "rejected"
    /\ ~(last'.result.kind = "number" /\ last'.result.value >= 0)

\* C23: when the provider's value is negative, NaN, an infinity or not a
\* number, the evaluate() records systemIdleMs as undefined, takes
\* now - lastActivity as the effective idle, writes lastActivity only if it
\* resumes the timer, and leaves the monitor and the timer exactly as the
\* decision without a provider value leaves them, with the same calls.
C23_UntrustedValueIgnored ==
    [][UntrustedValue
        => LET s == evaluateDecide(monitor, timer, last'.arg, NoResult, now, NoFx)
           IN  /\ monitor'.lastSystemIdleMs = Undefined
               /\ monitor'.lastEffectiveIdleMs = last'.arg - monitor.lastActivity
               /\ (monitor'.lastActivity # monitor.lastActivity) => last'.fx.started = 1
               /\ (isRunning(timer) /\ last'.arg - monitor.lastActivity >= monitor.thresholdMs)
                    => (~isRunning(timer') /\ monitor'.pausedByIdle)
               /\ (isRunning(timer) /\ last'.arg - monitor.lastActivity < monitor.thresholdMs)
                    => (timer' = timer /\ ~monitor'.pausedByIdle)
               /\ monitor' = s.monitor
               /\ timer' = s.timer
               /\ last'.fx.started = s.fx.started
               /\ last'.fx.paused = s.fx.paused
               /\ last'.fx.notified = s.fx.notified]_vars

\* a negative value came back and the timer was paused on the local
\* inactivity
C23_Witness ==
    /\ last.op = "evaluateResume"
    /\ last.result.kind = "number"
    /\ last.result.value < 0
    /\ last.fx.paused = 1
    /\ monitor.lastSystemIdleMs = Undefined
    /\ monitor.lastEffectiveIdleMs >= monitor.thresholdMs

----------------------------------------------------------------------------
(* Effective idle *)

\* the system value of the step in milliseconds, when it is trusted
SystemIdleOfStep == last'.result.value * 1000

\* C24 as stated: the effective idle of a deciding evaluate() is the system
\* value only when that is valid and smaller than the local inactivity,
\* else the local inactivity; and a running timer whose local inactivity
\* is below thresholdMs is not paused by the step.
C24_FresherSignalUsed ==
    [][Decides
        => /\ monitor'.lastEffectiveIdleMs
                = IF isValidIdle(last'.result) /\ SystemIdleOfStep < last'.local
                  THEN SystemIdleOfStep
                  ELSE last'.local
           /\ (isRunning(timer) /\ last'.local < monitor.thresholdMs)
                => (isRunning(timer') /\ last'.fx.paused = 0)]_vars

\* C24 amended: the effective idle of a deciding evaluate() is the system
\* value whenever that is valid, smaller than the local inactivity or not,
\* and the local inactivity otherwise; a running timer is paused by the
\* step exactly when that effective idle has reached thresholdMs, so local
\* activity less than thresholdMs ago keeps it running only when no valid
\* system value came back or the system value is below thresholdMs too.
C24_SystemSignalUsedWhenValid ==
    [][Decides
        => /\ monitor'.lastEffectiveIdleMs
                = IF isValidIdle(last'.result) THEN SystemIdleOfStep ELSE last'.local
           /\ isRunning(timer)
                => (~isRunning(timer')
                      <=> IF isValidIdle(last'.result)
                          THEN SystemIdleOfStep >= monitor.thresholdMs
                          ELSE last'.local >= monitor.thresholdMs)
           /\ (isRunning(timer) /\ last'.local < monitor.thresholdMs
                  /\ (isValidIdle(last'.result)
                        => SystemIdleOfStep < monitor.thresholdMs))
                => (timer' = timer /\ last'.fx.paused = 0)]_vars

\* a valid system value at or above the threshold paused a timer whose
\* local inactivity was below the threshold
C24_Witness ==
    /\ last.op = "evaluateResume"
    /\ isValidIdle(last.result)
    /\ last.result.value * 1000 >= monitor.thresholdMs
    /\ last.local >= 0
    /\ last.local < monitor.thresholdMs
    /\ last.fx.paused = 1
    /\ ~isRunning(timer)
    /\ monitor.lastEffectiveIdleMs = last.result.value * 1000

----------------------------------------------------------------------------
(* The system signal refreshes lastActivity *)

\* C25: an evaluate() that obtains a valid system idle value below
\* thresholdMs sets lastActivity to its now, whether or not a local event
\* fired; and an evaluate() that has no valid system value measures the
\* local inactivity from no earlier than the now of the latest evaluate to
\* which the system reported activity, so it pauses the timer only when
\* its own now is at least thresholdMs after that.
C25_SystemActivityRefreshesLocal ==
    [][/\ (Did("evaluateResume") /\ isValidIdle(last'.result)
             /\ SystemIdleOfStep < monitor.thresholdMs)
            => /\ monitor'.lastActivity = last'.arg
               /\ systemActivity' = last'.arg
       /\ (Decides /\ ~isValidIdle(last'.result) /\ systemActivity # Null)
            => /\ monitor.lastActivity >= systemActivity
               /\ last'.local <= EvalNowOfStep - systemActivity
               /\ last'.fx.paused = 1
                    => EvalNowOfStep >= systemActivity + monitor.thresholdMs]_vars

\* the system reported activity at a tick later than the last local
\* activity, no local event followed, and a later evaluate without a valid
\* system value paused the timer, measuring from that tick
C25_Witness ==
    /\ last.op = "evaluateResume"
    /\ ~isValidIdle(last.result)
    /\ last.fx.paused = 1
    /\ systemActivity > 0
    /\ last.local = last.arg - systemActivity
    /\ last.local >= monitor.thresholdMs

----------------------------------------------------------------------------
(* Diagnostics *)

\* C26: after an evaluate() that was not dropped has run to its decision,
\* getDiagnostics() returns as effectiveIdleMs the effective idle the
\* decision was taken on (a running timer was paused exactly when it had
\* reached thresholdMs) and as systemIdleMs the provider's value times 1000,
\* or undefined when no valid value came back; after clearAutoPause(), alone
\* or in a click handler, effectiveIdleMs is 0 and systemIdleMs is as
\* before; and pausedByIdle of getDiagnostics() is isPausedByInactivity()
\* in every state.
C26_Diagnostics ==
    [][/\ Decides
            => /\ getDiagnostics(monitor').effectiveIdleMs = EffectiveIdleOfStep
               /\ getDiagnostics(monitor').systemIdleMs
                    = IF isValidIdle(last'.result) THEN SystemIdleOfStep ELSE Undefined
               /\ isRunning(timer)
                    => (last'.fx.paused = 1
                          <=> getDiagnostics(monitor').effectiveIdleMs >= monitor.thresholdMs)
       /\ (Did("clearAutoPause") \/ Did("manualPause") \/ Did("manualStart")
             \/ Did("manualReset"))
            => /\ getDiagnostics(monitor').effectiveIdleMs = 0
               /\ getDiagnostics(monitor').systemIdleMs = getDiagnostics(monitor).systemIdleMs
       /\ getDiagnostics(monitor').pausedByIdle = isPausedByInactivity(monitor')]_vars

\* clearAutoPause() was called with a system idle time and a non-zero
\* effective idle cached by an earlier evaluate
C26_Witness ==
    /\ last.op = "clearAutoPause"
    /\ getDiagnostics(monitor).effectiveIdleMs = 0
    /\ getDiagnostics(monitor).systemIdleMs > 0
    /\ ~getDiagnostics(monitor).pausedByIdle

----------------------------------------------------------------------------
(* Settings of the renderer *)

\* C27: whatever was stored or typed, the idle delay of the current
\* settings is an integer from 1 to 1800 seconds, and the thresholdMs of
\* the monitor, handed over by the constructor and by setThresholdMs, is
\* that delay in milliseconds, from 1000 to 1800000.
C27_ThresholdPositive ==
    /\ currentSettings.afkIdleDelaySeconds \in MinIdleDelaySeconds..MaxIdleDelaySeconds
    /\ monitor.thresholdMs = currentSettings.afkIdleDelaySeconds * 1000
    /\ monitor.thresholdMs >= 1000
    /\ monitor.thresholdMs <= 1800000

\* a number above the range was typed and committed at the upper limit
C27_Witness ==
    /\ last.op = "commitThresholdChange"
    /\ isFinite(last.arg)
    /\ round(last.arg) > MaxIdleDelaySeconds
    /\ currentSettings.afkIdleDelaySeconds = MaxIdleDelaySeconds
    /\ monitor.thresholdMs = 1800000

----------------------------------------------------------------------------
(* One resume per episode *)

\* C28: when markActivity() has resumed the timer while an evaluate() is
\* suspended, it called timer.start() once and notified once; when that
\* evaluate then obtains a valid idle time below thresholdMs it calls
\* neither start nor pause and does not notify, and a timer it finds
\* running is left as it is, Active; so start is never called twice for
\* the resume.
C28_ResumedOnce ==
    [][/\ resumed' # "twice"
       /\ (Did("markActivity") /\ resumed' = "local" /\ resumed # "local")
            => (last'.fx.started = 1 /\ last'.fx.notified = 1)
       /\ (Did("evaluateResume") /\ resumed = "local" /\ isValidIdle(last'.result)
              /\ SystemIdleOfStep < monitor.thresholdMs)
            => /\ NoTimerCall(last'.fx)
               /\ last'.fx.notified = 0
               /\ isRunning(timer)
                    => /\ timer' = timer
                       /\ ~monitor'.pausedByIdle]_vars

\* the evaluate suspended across the resume by markActivity() obtained a
\* valid idle time below the threshold and found the timer running
C28_Witness ==
    /\ resumed = "once"
    /\ last.op = "evaluateResume"
    /\ isValidIdle(last.result)
    /\ last.fx.started = 0
    /\ isRunning(timer)
    /\ ~monitor.pausedByIdle

----------------------------------------------------------------------------
(* Signs and order of the cached times *)

\* C29: the effectiveIdleMs returned by getDiagnostics() is never negative,
\* with the clock never going back and markActivity() called with the
\* current time.
C29_EffectiveIdleNonNegative ==
    getDiagnostics(monitor).effectiveIdleMs >= 0

\* C30: no step sets lastActivity to an instant earlier than its previous
\* value, with the clock never going back and markActivity() called with
\* the current time.
C30_LastActivityNeverBackwards ==
    [][monitor'.lastActivity >= monitor.lastActivity]_vars

----------------------------------------------------------------------------
(* Applying settings *)

\* C31: applySettings calls neither timer.start() nor timer.pause() and
\* leaves the timer as it is, with pausedByIdle false afterwards: from
\* AutoPaused the timer stays paused, as a manual pause; and from a manual
\* pause neither markActivity() nor an evaluate() that decides starts the
\* timer.
C31_ApplySettingsKeepsTimer ==
    [][/\ Did("applySettings")
            => /\ timer' = timer
               /\ NoTimerCall(last'.fx)
               /\ ~monitor'.pausedByIdle
               /\ last'.fx.notified = IF monitor.pausedByIdle THEN 1 ELSE 0
       /\ (ManuallyPaused /\ (Did("markActivity") \/ Decides))
            => /\ timer' = timer
               /\ NoTimerCall(last'.fx)
               /\ ~monitor'.pausedByIdle]_vars

\* settings were applied to an AutoPaused timer, which is now manually
\* paused
C31_Witness ==
    /\ last.op = "applySettings"
    /\ last.fx.notified = 1
    /\ ManuallyPaused
    /\ getElapsedMs(timer, now) > 0

----------------------------------------------------------------------------
(* The todo store *)

\* C32: a call of createTodo, setTodoCompleted or deleteTodo whose write to
\* the file throws leaves state (nextId and the todos, hence what listTodos
\* returns) as it was before the call, and throws the error of the write
\* whenever the call got as far as writing.
C32_FailedWriteRestoresState ==
    [][(/\ Did("createTodo") \/ Did("setTodoCompleted") \/ Did("deleteTodo")
        /\ last'.local = 0)
           => /\ store'.state = store.state
              /\ listTodos(store') = listTodos(store)
              /\ store'.returned = store.returned
              /\ (/\ store.initialized
                  /\ \/ Did("createTodo") /\ sanitizeTitleError(last'.arg) = "none"
                     \/ ~Did("createTodo") /\ last'.arg \in StoredIds)
                     => /\ last'.result.kind = "threw"
                        /\ last'.result.value = "write"]_vars

\* createTodo failed to write after an earlier createTodo had succeeded
C32_Witness ==
    /\ last.op = "createTodo"
    /\ last.result.kind = "threw"
    /\ last.result.value = "write"
    /\ Len(store.returned) > 0
    /\ Len(store.state.todos) > 0

\* C33: once the store is initialized, nextId is greater than the id of
\* every stored todo, and the ids returned by createTodo are strictly
\* increasing.
C33_NextIdAboveStoredIds ==
    store.initialized
        => /\ \A i \in 1..Len(store.state.todos) :
                  greater(store.state.nextId, store.state.todos[i].id)
           /\ \A i, j \in 1..Len(store.returned) :
                  i < j => greater(store.returned[j], store.returned[i])

====
